---- MODULE Spec2Model ----
(***************************************************************************)
(* Model of cms/service/ScoringService.py: the scoring path, the catch-up  *)
(* scan and drain, the invalidation handler and the per-ranking dispatch   *)
(* queues with their periodic flush.                                       *)
(*                                                                         *)
(* Strings are sequences of byte values (0..255), so that encode_id and    *)
(* the construction of the subchange ids are computed as the code does.    *)
(* RPC handlers and timer callbacks are one action each; the flush         *)
(* greenlet (dispatch_operations) is split at its HTTP PUTs, which are the *)
(* points where other callbacks run.                                       *)
(***************************************************************************)
EXTENDS Integers, Sequences, FiniteSets, TLC

\* ------------------------------------------------------------------ bounds
MaxOps == 4          \* external events (judging, tokens, RPCs) in a run of Spec
MaxFlushOps == 2     \* external events in a run of SpecFlush
MaxRetryOps == 2     \* external events in a run of SpecRetry
MaxDrainOps == 3     \* external events in a run of SpecDrain
NumSubs == 18        \* submissions in the contest
MaxCount == 2        \* the PUT counters of the history saturate here
MaxKeyOps == 2       \* subchanges set in a run of SpecKeys
MaxNameLen == 2      \* length of the usernames of SpecEncode made of sample bytes
MaxSuspendOps == 3   \* invalidations in a run of SpecSuspend

\* ------------------------------------------------------ program constants
ScoreCap == 4        \* score_old_submissions: at most 4 results per step
TokenCap == 16       \* score_old_submissions: at most 16 tokens per step

None == -1           \* Python None for numeric fields

\* ------------------------------------------------------------ the contest
Rankings == {"A", "B"}
Submissions == 1..NumSubs
UnknownSub == NumSubs + 1
Tasks == {"t1", "t2"}
Datasets == {1, 2, 3, 4}
UnknownDataset == Cardinality(Datasets) + 1
TaskDatasets(t) == IF t = "t1" THEN {1, 2} ELSE {3, 4}
Autojudge(d) == d = 2
TaskOf(s) == IF s = NumSubs THEN "t2" ELSE "t1"
UserOf(s) == IF s = 2 THEN "mallory" ELSE "alice"
Hidden(u) == u = "mallory"
\* "alice", "m.y" (a name with a byte outside A-Za-z0-9)
Username(u) == IF u = "alice" THEN <<97, 108, 105, 99, 101>> ELSE <<109, 46, 121>>
\* "t1", "t2"
TaskName(t) == IF t = "t1" THEN <<116, 49>> ELSE <<116, 50>>
Timestamp(s) == 100 + s
TokenTimestamp(s) == 200 + s
Pairs == {p \in Submissions \X Datasets : p[2] \in TaskDatasets(TaskOf(p[1]))}

\* ---------------------------------------------------------------- strings
RECURSIVE DecStr(_)
DecStr(n) == IF n < 10 THEN <<48 + n>> ELSE DecStr(n \div 10) \o <<48 + (n % 10)>>

IsAlnum(c) == c \in (48..57) \cup (65..90) \cup (97..122)
HexDigit(v) == IF v < 10 THEN 48 + v ELSE 87 + v
\* the two hex digits of the byte, padded with 0
HexLast2_padded(c) == <<HexDigit(c \div 16), HexDigit(c % 16)>>
\* hex(ord(char))[-2:] : hex() gives "0x" and the digits without padding
HexLast2(c) == IF c < 16 THEN <<120, HexDigit(c)>>
               ELSE <<HexDigit(c \div 16), HexDigit(c % 16)>>

RECURSIVE encode_id(_)
encode_id(str) ==
    IF str = <<>> THEN <<>>
    ELSE (IF IsAlnum(Head(str)) THEN <<Head(str)>> ELSE <<95>> \o HexLast2(Head(str)))
         \o encode_id(Tail(str))

\* ------------------------------------------------------- finite maps (dict)
Empty == <<>>
Has(m, k) == k \in DOMAIN m
Get(m, k, dflt) == IF k \in DOMAIN m THEN m[k] ELSE dflt
Put(m, k, v) == [x \in (DOMAIN m) \cup {k} |-> IF x = k THEN v ELSE m[x]]
\* dict.update: the entries of upd win
Update(m, upd) == [x \in (DOMAIN m) \cup (DOMAIN upd) |->
                      IF x \in DOMAIN upd THEN upd[x] ELSE m[x]]
Restrict(m, S) == [x \in (DOMAIN m) \cap S |-> m[x]]
\* the value of an expression, computed once
Value(x) == CHOOSE v \in {x} : TRUE

\* -------------------------------------------------------------- variables
VARIABLES
    \* the persistent store (shared with the judging pipeline and the admin)
    res,            \* (submission, dataset) -> status, score, ranking details
    active,         \* task -> its active dataset
    token,          \* submission -> TRUE when a token was played on it
    \* ScoringService fields
    submission_results_to_score,
    submissions_to_token,
    scoring_old_submission,
    submission_results_scored,
    submissions_tokened,
    initialize_queue,
    submission_queue,
    subchange_queue,
    timeouts,       \* alive timeouts of score_old_submissions
    running,        \* those of them that ran a step and returned True
    steps,          \* history: items popped by each step since the last drain started
    frames,         \* locals of the score_old_submissions callbacks suspended in a handler
    \* locals of the running dispatch_operations
    d_pc, d_initialize_queue, d_submission_queue, d_subchange_queue,
    failed_rankings, new_initialize_queue, new_submission_queue,
    new_subchange_queue, todo, cur, init_step,
    \* environment
    healthy,        \* rankings that answer 200 from now on
    raised,         \* exception that left the last RPC handler, or "none"
    thread_alive,   \* dispath_operations_thread is still looping
    budget,         \* external events the run may still take
    \* history
    log,            \* PUTs of the current (or last) flush round, with the keys sent
    enq_submission, \* entries set in submission_queue since the last swap
    enq_subchange,  \* entries set in subchange_queue since the last swap
    hist,           \* (ranking, kind, key) -> last value set, PUTs since then
    initialized     \* rankings whose initialize has succeeded since the service started

store_vars == <<res, active, token>>
ledger_vars == <<submission_results_to_score, submissions_to_token,
                 scoring_old_submission, submission_results_scored,
                 submissions_tokened, timeouts, running, steps, frames>>
queue_vars == <<initialize_queue, submission_queue, subchange_queue>>
dispatch_vars == <<d_pc, d_initialize_queue, d_submission_queue,
                   d_subchange_queue, failed_rankings, new_initialize_queue,
                   new_submission_queue, new_subchange_queue, todo, cur,
                   init_step>>
env_vars == <<healthy, raised, thread_alive, budget>>
hist_vars == <<log, enq_submission, enq_subchange, hist, initialized>>
vars == <<store_vars, ledger_vars, queue_vars, dispatch_vars, env_vars, hist_vars>>

\* ------------------------------------------------------------ store model
NoResult == [status |-> "absent", score |-> None, details |-> None]
Result(r, s, d) == IF <<s, d>> \in Pairs THEN r[<<s, d>>] ELSE NoResult
exists(sr) == sr.status # "absent"
\* compiled() without its test
compiled_never(sr) == FALSE
compiled_always(sr) == TRUE
\* compilation_outcome is not None
compiled(sr) == sr.status \in {"fail", "ok", "evaluated"}
evaluated(sr) == sr.status = "evaluated"
compilation_outcome(sr) == IF sr.status = "fail" THEN "fail"
                           ELSE IF sr.status \in {"ok", "evaluated"} THEN "ok"
                           ELSE "none"
invalidate_score(sr) == [sr EXCEPT !.score = None, !.details = None]

get_datasets_to_judge(act, t) == {act[t]} \cup {d \in TaskDatasets(t) : Autojudge(d)}

\* The scoring policy: equal-weighted sum over two testcases worth 50 each.
Outcomes(s, d) == <<1, IF d \in {1, 3} THEN 1 ELSE 0>>
compute_score(s, d, is_evaluated) ==
    IF is_evaluated THEN 50 * Outcomes(s, d)[1] + 50 * Outcomes(s, d)[2] ELSE 0
\* ranking details blob: 0 blank, 1 text that is not JSON, >= 2 a JSON value
ranking_details(s, d) == IF d = 2 THEN 1 ELSE IF d = 3 THEN 0 ELSE 2
\* json.loads without the except of lines 524-529 and 699-704 that turns
\* a blank or malformed blob into None
json_loads_unchecked(blob) == blob
json_loads(blob) == IF blob >= 2 THEN blob ELSE None

\* --------------------------------------------------------------- payloads
SubmissionKey(s) == encode_id(DecStr(s))
\* "%s%ss" and "%s%st" without the suffix
SubchangeId_nosuffix(time, s, suffix) == DecStr(time) \o DecStr(s)
\* lines 541-543, 595-597, 708-710: "%s%ss" % (time, id), "%s%st" % (time, id)
SubchangeId(time, s, suffix) == DecStr(time) \o DecStr(s) \o <<suffix>>
ScoreSubchangeId(s) == SubchangeId(Timestamp(s), s, 115)
TokenSubchangeId(s) == SubchangeId(TokenTimestamp(s), s, 116)

submission_put_data(s) ==
    [user |-> encode_id(Username(UserOf(s))),
     task |-> encode_id(TaskName(TaskOf(s))),
     time |-> Timestamp(s)]
\* a subchange dict: keys lists which of score, extra, token are present
Subchange(s, time, keys, score, extra) ==
    [submission |-> encode_id(DecStr(s)), time |-> time, keys |-> keys,
     score |-> score, extra |-> extra]

\* --------------------------------------------------- the handlers' state
\* The handlers are written as functions of the record of everything they
\* read and write, so that score_old_submissions can call them in a loop.
HState == [res |-> res, active |-> active, token |-> token,
           scored |-> submission_results_scored,
           tokened |-> submissions_tokened,
           sq |-> submission_queue, cq |-> subchange_queue,
           enq_s |-> enq_submission, enq_c |-> enq_subchange,
           hist |-> hist, raised |-> "none"]

\* self.<kind>_queue.setdefault(ranking, dict())[key] = data
SetEntry(q, ranking, key, data) == Put(q, ranking, Put(Get(q, ranking, Empty), key, data))
Track(h, ranking, kind, key, data) ==
    Put(h, <<ranking, kind, key>>, [val |-> data, sent |-> 0, acked |-> 0])

\* the loops "for ranking in config.rankings"
EnqueueSubmission_first(st, rs, key, data) ==
    IF rs = {} THEN st
    ELSE LET r == CHOOSE x \in rs : TRUE
         IN [st EXCEPT !.sq = SetEntry(@, r, key, data),
                       !.enq_s = SetEntry(@, r, key, data),
                       !.hist = Track(@, r, "submission", key, data)]

RECURSIVE EnqueueSubmission(_, _, _, _)
EnqueueSubmission(st, rs, key, data) ==
    IF rs = {} THEN st
    ELSE LET r == CHOOSE x \in rs : TRUE
         IN EnqueueSubmission(
                [st EXCEPT !.sq = SetEntry(@, r, key, data),
                           !.enq_s = SetEntry(@, r, key, data),
                           !.hist = Track(@, r, "submission", key, data)],
                rs \ {r}, key, data)

RECURSIVE EnqueueSubchange(_, _, _, _)
EnqueueSubchange(st, rs, key, data) ==
    IF rs = {} THEN st
    ELSE LET r == CHOOSE x \in rs : TRUE
         IN EnqueueSubchange(
                [st EXCEPT !.cq = SetEntry(@, r, key, data),
                           !.enq_c = SetEntry(@, r, key, data),
                           !.hist = Track(@, r, "subchange", key, data)],
                rs \ {r}, key, data)

\* ----------------------------------------------------------- new_evaluation
\* line 533: dataset is submission.task.active_dataset
IsLiveDataset_always(st, s, d) == TRUE
IsLiveDataset(st, s, d) == d = st.active[TaskOf(s)]

\* lines 467-473: Dataset.get_from_id returns None for an id that is not in
\* the database
DatasetNotFound_never(d) == FALSE
DatasetNotFound(d) == d \notin Datasets

new_evaluation(st, s, d) ==
    IF s \notin Submissions \/ DatasetNotFound(d)
    THEN [st EXCEPT !.raised = "ValueError"]
    ELSE
    LET sr == Result(st.res, s, d) IN
    IF ~exists(sr) \/ ~compiled(sr) THEN st
    ELSE IF compilation_outcome(sr) = "ok" /\ ~evaluated(sr) THEN st
    ELSE IF Hidden(UserOf(s)) THEN st
    ELSE
    LET score == compute_score(s, d, evaluated(sr))
        details == ranking_details(s, d)
        st1 == [st EXCEPT !.scored = @ \cup {<<s, d>>},
                          !.res[<<s, d>>] = [status |-> sr.status,
                                             score |-> score,
                                             details |-> details]]
        extra == json_loads(details)
    IN IF ~IsLiveDataset(st, s, d) THEN st1
       ELSE LET data == Subchange(s, Timestamp(s),
                                  {"score"} \cup (IF extra # None THEN {"extra"} ELSE {}),
                                  score, extra)
                st2 == EnqueueSubmission(st1, Rankings, SubmissionKey(s),
                                         submission_put_data(s))
            IN EnqueueSubchange(st2, Rankings, encode_id(ScoreSubchangeId(s)), data)

\* ------------------------------------------------------- submission_tokened
\* lines 598-601 with the time of the submission instead of the token's
TokenSubchange_submission_time(s) == Subchange(s, Timestamp(s), {"token"}, None, None)
\* lines 598-601: subchange_put_data
TokenSubchange(s) == Subchange(s, TokenTimestamp(s), {"token"}, None, None)

submission_tokened(st, s) ==
    IF s \notin Submissions THEN [st EXCEPT !.raised = "KeyError"]
    ELSE IF Hidden(UserOf(s)) THEN st
    \* submission.token is None: the attribute access fails after the marking
    ELSE IF ~st.token[s] THEN [st EXCEPT !.tokened = @ \cup {s},
                                         !.raised = "AttributeError"]
    ELSE
    LET st1 == [st EXCEPT !.tokened = @ \cup {s}]
        data == TokenSubchange(s)
        st2 == EnqueueSubmission(st1, Rankings, SubmissionKey(s),
                                 submission_put_data(s))
    IN EnqueueSubchange(st2, Rankings, encode_id(TokenSubchangeId(s)), data)

\* ---------------------------------------------------------- dataset_updated
DatasetUpdatedData(st, s, d) ==
    LET sr == Result(st.res, s, d)
        score == IF ~exists(sr) THEN None ELSE sr.score
        extra == IF ~exists(sr) THEN None ELSE json_loads(sr.details)
    IN Subchange(s, Timestamp(s),
                 (IF score # None THEN {"score"} ELSE {})
                     \cup (IF extra # None THEN {"extra"} ELSE {}),
                 score, extra)

\* the subchanges list is built in the order of task.submissions and then
\* set in every ranking's queue
RECURSIVE DatasetUpdatedLoop(_, _, _)
DatasetUpdatedLoop(st, subs, d) ==
    IF subs = {} THEN st
    ELSE LET s == CHOOSE x \in subs : \A y \in subs : x <= y
         IN DatasetUpdatedLoop(
                EnqueueSubchange(st, Rankings, encode_id(ScoreSubchangeId(s)),
                                 DatasetUpdatedData(st, s, d)),
                subs \ {s}, d)

\* line 685 with the first dataset of the task instead of the active one
dataset_updated_first_dataset(st, t) ==
    DatasetUpdatedLoop(st, {s \in Submissions : TaskOf(s) = t},
                       CHOOSE d \in TaskDatasets(t) : \A e \in TaskDatasets(t) : d <= e)
dataset_updated(st, t) ==
    DatasetUpdatedLoop(st, {s \in Submissions : TaskOf(s) = t}, st.active[t])

\* ------------------------------------------------------------------- Init
\* __init__ (lines 153-196), and the history empty
InitService ==
    /\ submission_results_to_score = {}
    /\ submissions_to_token = {}
    /\ scoring_old_submission = FALSE
    /\ submission_results_scored = {}
    /\ submissions_tokened = {}
    /\ initialize_queue = Rankings
    /\ submission_queue = Empty
    /\ subchange_queue = Empty
    /\ timeouts = 0
    /\ running = 0
    /\ steps = <<>>
    /\ frames = <<>>
    /\ d_pc = "idle"
    /\ d_initialize_queue = {}
    /\ d_submission_queue = Empty
    /\ d_subchange_queue = Empty
    /\ failed_rankings = {}
    /\ new_initialize_queue = {}
    /\ new_submission_queue = Empty
    /\ new_subchange_queue = Empty
    /\ todo = {}
    /\ cur = "none"
    /\ init_step = 1
    /\ raised = "none"
    /\ thread_alive = TRUE
    /\ log = <<>>
    /\ enq_submission = Empty
    /\ enq_subchange = Empty
    /\ hist = Empty
    /\ initialized = {}

\* the service starts on a contest without results
Init ==
    /\ InitService
    /\ res = [p \in Pairs |-> NoResult]
    /\ active = [t \in Tasks |-> IF t = "t1" THEN 1 ELSE 3]
    /\ token = [s \in Submissions |-> FALSE]
    /\ healthy = {}
    /\ budget = MaxOps

\* a contest where submission 1 has a token and is evaluated under both
\* datasets of its task; an earlier run of the service scored it under
\* dataset 2
FlushStore ==
    /\ res = [p \in Pairs |->
                 IF p = <<1, 1>> THEN [NoResult EXCEPT !.status = "evaluated"]
                 ELSE IF p = <<1, 2>>
                 THEN [status |-> "evaluated",
                       score |-> compute_score(1, 2, TRUE),
                       details |-> ranking_details(1, 2)]
                 ELSE NoResult]
    /\ active = [t \in Tasks |-> IF t = "t1" THEN 1 ELSE 3]
    /\ token = [s \in Submissions |-> s = 1]

\* the service starts on that contest; any ranking may fail
InitFlush ==
    /\ InitService
    /\ FlushStore
    /\ healthy = {}
    /\ budget = MaxFlushOps

\* the same start with ranking B answering 200 all along
InitRetry ==
    /\ InitService
    /\ FlushStore
    /\ healthy = {"B"}
    /\ budget = MaxRetryOps

\* the service starts on a contest where five submissions of task t1 are
\* evaluated under the active dataset and submission 1 is being compiled
\* under dataset 2
DrainSubs == 1..5
InitDrain ==
    /\ InitService
    /\ res = [p \in Pairs |->
                 IF p[1] \in DrainSubs /\ p[2] = 1
                 THEN [NoResult EXCEPT !.status = "evaluated"]
                 ELSE IF p = <<1, 2>>
                 THEN [NoResult EXCEPT !.status = "compiling"]
                 ELSE NoResult]
    /\ active = [t \in Tasks |-> IF t = "t1" THEN 1 ELSE 3]
    /\ token = [s \in Submissions |-> FALSE]
    /\ healthy = {}
    /\ budget = MaxDrainOps

\* Scenario D: the service starts on a contest with ten results to score,
\* five submissions evaluated under both datasets to judge of t1, where
\* either no token was played or one on every submission of t1
InitCatchUp ==
    /\ InitService
    /\ res = [p \in Pairs |->
                 IF p[1] \in DrainSubs
                 THEN [NoResult EXCEPT !.status = "evaluated"]
                 ELSE NoResult]
    /\ active = [t \in Tasks |-> IF t = "t1" THEN 1 ELSE 3]
    /\ \E played \in BOOLEAN :
          token = [s \in Submissions |-> played /\ TaskOf(s) = "t1"]
    /\ healthy = {}
    /\ budget = 0

\* the handlers' writes
Commit(st) ==
    /\ res' = st.res
    /\ submission_results_scored' = st.scored
    /\ submissions_tokened' = st.tokened
    /\ submission_queue' = st.sq
    /\ subchange_queue' = st.cq
    /\ enq_submission' = st.enq_s
    /\ enq_subchange' = st.enq_c
    /\ hist' = st.hist

\* ------------------------------------------------ the store's other writers
\* submissions and datasets the environment of the main specification uses
FocusSubs == {1, 2}
FocusDatasets == {1, 2}

\* the judging pipeline records the progress of a result
CanBecome(a, b) ==
    \/ a = "absent" /\ b \in {"compiling", "fail", "ok", "evaluated"}
    \/ a = "compiling" /\ b \in {"fail", "ok", "evaluated"}
    \/ a = "ok" /\ b = "evaluated"
Judge(s, d, x) ==
    /\ budget > 0
    /\ <<s, d>> \in Pairs
    /\ CanBecome(res[<<s, d>>].status, x)
    /\ res' = [res EXCEPT ![<<s, d>>].status = x]
    /\ budget' = budget - 1
    /\ UNCHANGED <<active, token, ledger_vars, queue_vars, dispatch_vars,
                   healthy, raised, thread_alive, hist_vars>>

\* a contestant plays a token on a submission
PlayToken(s) ==
    /\ budget > 0
    /\ ~token[s]
    /\ token' = [token EXCEPT ![s] = TRUE]
    /\ budget' = budget - 1
    /\ UNCHANGED <<res, active, ledger_vars, queue_vars, dispatch_vars,
                   healthy, raised, thread_alive, hist_vars>>

\* an admin makes another dataset of the task the active one
SwitchActive(t, d) ==
    /\ budget > 0
    /\ d \in TaskDatasets(t)
    /\ d # active[t]
    /\ active' = [active EXCEPT ![t] = d]
    /\ budget' = budget - 1
    /\ UNCHANGED <<res, token, ledger_vars, queue_vars, dispatch_vars,
                   healthy, raised, thread_alive, hist_vars>>

\* the ranking answers 200 from now on
Heal(r) ==
    /\ r \notin healthy
    /\ healthy' = healthy \cup {r}
    /\ UNCHANGED <<store_vars, ledger_vars, queue_vars, dispatch_vars,
                   raised, thread_alive, budget, hist_vars>>

\* ------------------------------------------------------------ RPC handlers
RpcNewEvaluation(s, d) ==
    /\ budget > 0
    /\ LET st == new_evaluation(HState, s, d)
       IN Commit(st) /\ raised' = st.raised
    /\ budget' = budget - 1
    /\ UNCHANGED <<active, token, submission_results_to_score,
                   submissions_to_token, scoring_old_submission, timeouts,
                   running, steps, frames, initialize_queue, dispatch_vars, healthy,
                   thread_alive, log, initialized>>

RpcSubmissionTokened(s) ==
    /\ budget > 0
    /\ LET st == submission_tokened(HState, s)
       IN Commit(st) /\ raised' = st.raised
    /\ budget' = budget - 1
    /\ UNCHANGED <<active, token, submission_results_to_score,
                   submissions_to_token, scoring_old_submission, timeouts,
                   running, steps, frames, initialize_queue, dispatch_vars, healthy,
                   thread_alive, log, initialized>>

RpcDatasetUpdated(t) ==
    /\ budget > 0
    /\ budget' = budget - 1
    /\ UNCHANGED <<active, token, submission_results_to_score,
                   submissions_to_token, scoring_old_submission, timeouts,
                   running, steps, frames, initialize_queue, dispatch_vars, healthy,
                   thread_alive, log, initialized>>
    /\ LET st == dataset_updated(HState, t)
       IN Commit(st) /\ raised' = st.raised

\* lines 447-448: for ranking in config.rankings: initialize_queue.add
RequeueInitialize_keep(q) == q
RequeueInitialize(q) == q \cup Rankings

\* reinitialize: the scorers are rebuilt from the same datasets
RpcReinitialize ==
    /\ budget > 0
    /\ initialize_queue' = RequeueInitialize(initialize_queue)
    /\ raised' = "none"
    /\ budget' = budget - 1
    /\ UNCHANGED <<store_vars, ledger_vars, submission_queue, subchange_queue,
                   dispatch_vars, healthy, thread_alive, hist_vars>>

\* lines 264 and 671: if old_s + old_t == 0: self.add_timeout(...)
BacklogWasEmpty_always(old_s, old_t) == TRUE
BacklogWasEmpty(old_s, old_t) == old_s + old_t = 0

\* ---------------------------------------------------- invalidate_submission
NoFilter == [submission_id |-> None, dataset_id |-> None,
             user_id |-> "none", task_id |-> "none"]
\* get_submission_results: the existing results that match every given filter
get_submission_results(r, f) ==
    {p \in Pairs :
        /\ exists(r[p])
        /\ f.submission_id # None => p[1] = f.submission_id
        /\ f.dataset_id # None => p[2] = f.dataset_id
        /\ f.user_id # "none" => UserOf(p[1]) = f.user_id
        /\ f.task_id # "none" => TaskOf(p[1]) = f.task_id}

RpcInvalidateSubmission(f) ==
    /\ budget > 0
    /\ budget' = budget - 1
    /\ raised' = "none"
    /\ LET submission_results == get_submission_results(res, f)
           new_submission_results_to_score ==
               {p \in submission_results : evaluated(res[p])}
           old_s == Cardinality(submission_results_to_score)
           old_t == Cardinality(submissions_to_token)
       IN IF submission_results = {}
          THEN UNCHANGED <<res, submission_results_to_score, timeouts>>
          ELSE /\ res' = [p \in Pairs |->
                             IF p \in new_submission_results_to_score
                             THEN invalidate_score(res[p]) ELSE res[p]]
               /\ submission_results_to_score' =
                      submission_results_to_score \cup new_submission_results_to_score
               /\ timeouts' = IF BacklogWasEmpty(old_s, old_t) THEN timeouts + 1 ELSE timeouts
    /\ UNCHANGED <<active, token, submissions_to_token, scoring_old_submission, running, steps, frames,
                   submission_results_scored, submissions_tokened, queue_vars,
                   dispatch_vars, healthy, thread_alive, hist_vars>>

\* ----------------------------------------------------- search_jobs_not_done
\* the scan without the results whose compilation failed
ScanResults_evaluated_only ==
    {p \in Pairs :
        /\ p[2] \in get_datasets_to_judge(active, TaskOf(p[1]))
        /\ evaluated(res[p])
        /\ p \notin submission_results_scored}
ScanResults ==
    {p \in Pairs :
        /\ p[2] \in get_datasets_to_judge(active, TaskOf(p[1]))
        /\ exists(res[p])
        /\ (evaluated(res[p]) \/ compilation_outcome(res[p]) = "fail")
        /\ p \notin submission_results_scored}
ScanTokens == {s \in Submissions : token[s] /\ s \notin submissions_tokened}

search_jobs_not_done ==
    /\ IF scoring_old_submission
       THEN UNCHANGED <<submission_results_to_score, submissions_to_token, timeouts>>
       ELSE LET new_s == Cardinality(ScanResults)
                old_s == Cardinality(submission_results_to_score)
                new_t == Cardinality(ScanTokens)
                old_t == Cardinality(submissions_to_token)
            IN IF new_s + new_t > 0
               THEN /\ submission_results_to_score' =
                           submission_results_to_score \cup ScanResults
                    /\ submissions_to_token' = submissions_to_token \cup ScanTokens
                    /\ timeouts' = IF BacklogWasEmpty(old_s, old_t) THEN timeouts + 1
                                                      ELSE timeouts
               ELSE UNCHANGED <<submission_results_to_score,
                                submissions_to_token, timeouts>>
    /\ UNCHANGED <<store_vars, scoring_old_submission, running, steps, frames,
                   submission_results_scored, submissions_tokened, queue_vars, dispatch_vars, env_vars,
                   hist_vars>>

\* ---------------------------------------------------- score_old_submissions
\* the slice "x if x < cap else cap" without the cap
Min_nocap(a, b) == a
Min(a, b) == IF a < b THEN a ELSE b
\* lines 294 and 300: if to_score - to_score_now > 0: return True
MoreLeft_never(total, now) == FALSE
MoreLeft(total, now) == total - now > 0
\* the calls of one step; set.pop() takes the items in an arbitrary order,
\* the handlers' writes on different items commute
RECURSIVE ScoreLoop(_, _)
ScoreLoop(st, items) ==
    IF items = {} THEN st
    ELSE LET p == CHOOSE x \in items : TRUE
         IN ScoreLoop(Value(new_evaluation(st, p[1], p[2])), Value(items \ {p}))
RECURSIVE TokenLoop(_, _)
TokenLoop(st, items) ==
    IF items = {} THEN st
    ELSE LET s == CHOOSE x \in items : TRUE
         IN TokenLoop(Value(submission_tokened(st, s)), Value(items \ {s}))

\* the sets of k submission ids that k calls of set.pop() can take from S,
\* each given by the ids it leaves
RECURSIVE Leave(_, _)
Leave(S, k) ==
    IF k = 0 THEN {{}}
    ELSE UNION {{c \cup {x} : c \in Leave({y \in S : y > x}, k - 1)} : x \in S}
Pops(S, k) == {S \ c : c \in Leave(S, Cardinality(S) - k)}

\* one run of the callback of a timeout: fresh when it is the timeout's first
score_old_submissions(fresh) ==
    /\ IF fresh THEN timeouts - running > 0 ELSE running > 0
    /\ LET to_score == Cardinality(submission_results_to_score)
           to_token == Cardinality(submissions_to_token)
           to_score_now == Min(to_score, ScoreCap)
           to_token_now == Min(to_token, TokenCap)
           was == IF fresh THEN 0 ELSE 1
       IN \E popped_s \in {c \in SUBSET submission_results_to_score :
                               Cardinality(c) = to_score_now} :
          /\ submission_results_to_score' = submission_results_to_score \ popped_s
          /\ steps' = Append(IF fresh THEN <<>> ELSE steps,
                              <<to_score_now,
                                IF MoreLeft(to_score, to_score_now) THEN 0
                                ELSE to_token_now>>)
          /\ \E st1 \in {ScoreLoop(HState, popped_s)} :
             IF MoreLeft(to_score, to_score_now)
             THEN /\ Commit(st1)
                  /\ scoring_old_submission' = TRUE
                  /\ running' = running - was + 1
                  /\ UNCHANGED <<submissions_to_token, timeouts>>
             ELSE \E popped_t \in Pops(submissions_to_token, to_token_now) :
                  /\ submissions_to_token' = submissions_to_token \ popped_t
                  /\ \E st2 \in {TokenLoop(st1, popped_t)} : Commit(st2)
                  /\ IF MoreLeft(to_token, to_token_now)
                     THEN /\ scoring_old_submission' = TRUE
                          /\ running' = running - was + 1
                          /\ timeouts' = timeouts
                     ELSE /\ scoring_old_submission' = FALSE
                          /\ running' = running - was
                          /\ timeouts' = timeouts - 1
    /\ UNCHANGED <<active, token, frames, initialize_queue, dispatch_vars, env_vars, log, initialized>>

\* ------------------------- score_old_submissions with its suspension points
\* new_evaluation and submission_tokened wait on the store when they open
\* their session; the callback is suspended there, after its pop, and other
\* callbacks run. A frame holds the locals of a suspended callback: the loop
\* it is in, the item it popped, the iterations left (xrange is computed
\* from the sizes read at line 284-287) and the two tests of lines 294, 300.
NoPair == <<>>
NoSub == 0
NewFrame == [pc |-> "score", cur_s |-> NoPair, cur_t |-> NoSub,
             s_left |-> Min(Cardinality(submission_results_to_score), ScoreCap),
             more_s |-> MoreLeft(Cardinality(submission_results_to_score),
                                 Min(Cardinality(submission_results_to_score), ScoreCap)),
             t_left |-> Min(Cardinality(submissions_to_token), TokenCap),
             more_t |-> MoreLeft(Cardinality(submissions_to_token),
                                 Min(Cardinality(submissions_to_token), TokenCap))]

\* the handler call the callback was suspended in
Resume(st, f) ==
    IF f.cur_s # NoPair THEN new_evaluation(st, f.cur_s[1], f.cur_s[2])
    ELSE IF f.cur_t # NoSub THEN submission_tokened(st, f.cur_t)
    ELSE st

\* frames with the i-th replaced by f (appended when i = 0), or removed
WithFrame(i, f) == IF i = 0 THEN Append(frames, f) ELSE [frames EXCEPT ![i] = f]
WithoutFrame(i) == IF i = 0 THEN frames
                   ELSE SubSeq(frames, 1, i - 1) \o SubSeq(frames, i + 1, Len(frames))

\* the callback of frame f runs on to its next pop, where it is suspended
\* again, or to its return; set.pop() on an empty set raises KeyError, which
\* leaves the callback
RunOn(i, f, begin) ==
    /\ Commit(Resume(HState, f))
    /\ IF f.pc = "score" /\ f.s_left > 0
       THEN IF submission_results_to_score = {}
            THEN /\ frames' = WithFrame(i, [f EXCEPT !.pc = "KeyError"])
                 /\ scoring_old_submission' = (begin \/ scoring_old_submission)
                 /\ UNCHANGED <<submission_results_to_score, submissions_to_token, timeouts>>
            ELSE \E p \in submission_results_to_score :
                 /\ submission_results_to_score' = submission_results_to_score \ {p}
                 /\ frames' = WithFrame(i, [f EXCEPT !.cur_s = p, !.s_left = @ - 1])
                 /\ scoring_old_submission' = (begin \/ scoring_old_submission)
                 /\ UNCHANGED <<submissions_to_token, timeouts>>
       ELSE IF f.pc = "score" /\ f.more_s
       THEN /\ frames' = WithoutFrame(i)
            /\ scoring_old_submission' = (begin \/ scoring_old_submission)
            /\ UNCHANGED <<submission_results_to_score, submissions_to_token, timeouts>>
       ELSE IF f.t_left > 0
       THEN IF submissions_to_token = {}
            THEN /\ frames' = WithFrame(i, [f EXCEPT !.pc = "KeyError"])
                 /\ scoring_old_submission' = (begin \/ scoring_old_submission)
                 /\ UNCHANGED <<submission_results_to_score, submissions_to_token, timeouts>>
            ELSE \E x \in submissions_to_token :
                 /\ submissions_to_token' = submissions_to_token \ {x}
                 /\ frames' = WithFrame(i, [f EXCEPT !.pc = "token", !.cur_s = NoPair,
                                                     !.cur_t = x, !.t_left = @ - 1])
                 /\ scoring_old_submission' = (begin \/ scoring_old_submission)
                 /\ UNCHANGED <<submission_results_to_score, timeouts>>
       ELSE IF f.more_t
       THEN /\ frames' = WithoutFrame(i)
            /\ scoring_old_submission' = (begin \/ scoring_old_submission)
            /\ UNCHANGED <<submission_results_to_score, submissions_to_token, timeouts>>
       ELSE /\ frames' = WithoutFrame(i)
            /\ scoring_old_submission' = FALSE
            /\ timeouts' = timeouts - 1
            /\ UNCHANGED <<submission_results_to_score, submissions_to_token>>
    /\ UNCHANGED <<active, token, running, steps, initialize_queue, dispatch_vars,
                   env_vars, log, initialized>>

\* a timeout that is not inside its callback fires: lines 283-287, then the
\* first iteration
DrainBegin ==
    /\ timeouts - Len(frames) > 0
    /\ RunOn(0, NewFrame, TRUE)

\* the store answers and a suspended callback goes on
DrainResume(i) ==
    /\ i \in DOMAIN frames
    /\ frames[i].pc # "KeyError"
    /\ RunOn(i, frames[i], FALSE)

\* ------------------------------------------------------ dispatch_operations
InitKind == <<"contest", "users", "tasks">>
\* "c1"
ContestName == <<99, 49>>
Users == {"alice", "mallory"}
\* lines 405-410 without "if not user.hidden"
InitializeUsers_all == {encode_id(Username(u)) : u \in Users}
\* lines 405-410: the keys of the users dict
InitializeUsers == {encode_id(Username(u)) : u \in {x \in Users : ~Hidden(x)}}
\* the keys of the payload of each PUT of initialize (lines 398-421)
InitializeData(kind) ==
    IF kind = "contest" THEN {encode_id(ContestName)}
    ELSE IF kind = "users" THEN InitializeUsers
    ELSE {encode_id(TaskName(t)) : t \in Tasks}
\* the answers a PUT to the ranking can get: 200 (TRUE) or a failure
PutOutcomes(r) == IF r \in healthy THEN {TRUE} ELSE BOOLEAN

\* the bare "except:" around initialize, send_submissions, send_subchanges
ExceptClause_narrow(exc) == exc = "KeyError"
ExceptClause(exc) == TRUE

\* lines 341 and 354: if ranking in failed_rankings
IsFailed_any(r, failed) == failed # {}
IsFailed_never(r, failed) == FALSE
IsFailed(r, failed) == r \in failed

\* lines 365-373 without the update from the live queue, and with the update
\* in the other direction
MergeQueues_drop(new_queue, live_queue) ==
    [r \in (DOMAIN live_queue) \cup (DOMAIN new_queue) |->
        IF r \in DOMAIN new_queue THEN new_queue[r] ELSE live_queue[r]]
MergeQueues_old_wins(new_queue, live_queue) ==
    [r \in (DOMAIN live_queue) \cup (DOMAIN new_queue) |->
        Update(Get(live_queue, r, Empty), Get(new_queue, r, Empty))]

\* lines 365-373: per ranking, the kept entries updated with the live ones
MergeQueues(new_queue, live_queue) ==
    [r \in (DOMAIN live_queue) \cup (DOMAIN new_queue) |->
        Update(Get(new_queue, r, Empty), Get(live_queue, r, Empty))]

\* history: a PUT of data to ranking r; entries set again since the swap
\* belong to the next round
MarkPut(h, r, kind, data, enq, ok) ==
    [x \in DOMAIN h |->
        IF x[1] = r /\ x[2] = kind /\ x[3] \in DOMAIN data
           /\ x[3] \notin DOMAIN Get(enq, r, Empty)
        THEN [h[x] EXCEPT !.sent = Min(@ + 1, MaxCount),
                          !.acked = Min(@ + (IF ok THEN 1 ELSE 0), MaxCount)]
        ELSE h[x]]

Locals == [pc |-> d_pc, todo |-> todo, cur |-> cur, init_step |-> init_step,
           failed |-> failed_rankings, new_init |-> new_initialize_queue,
           new_sub |-> new_submission_queue, new_chg |-> new_subchange_queue]

\* the loops run on without suspension until the next PUT
Settle(loc, dsq, dcq) ==
    LET l2 == IF loc.pc = "init" /\ loc.todo = {} /\ loc.cur = "none"
              THEN [loc EXCEPT !.pc = "submissions", !.todo = DOMAIN dsq]
              ELSE loc
        l3 == IF l2.pc = "submissions" /\ l2.todo = {}
              THEN [l2 EXCEPT !.pc = "subchanges", !.todo = DOMAIN dcq]
              ELSE l2
    IN IF l3.pc = "subchanges" /\ l3.todo = {}
       THEN [l3 EXCEPT !.pc = "merge"]
       ELSE l3

\* continue after a step: either wait in the next PUT or finish the round
\* with the merge of lines 365-373
Continue(loc0, dsq, dcq, live_init, live_sub, live_chg) ==
    LET loc == Settle(loc0, dsq, dcq) IN
    /\ failed_rankings' = loc.failed
    /\ new_initialize_queue' = loc.new_init
    /\ new_submission_queue' = loc.new_sub
    /\ new_subchange_queue' = loc.new_chg
    /\ cur' = loc.cur
    /\ init_step' = loc.init_step
    /\ IF loc.pc = "merge"
       THEN /\ initialize_queue' = live_init \cup loc.new_init
            /\ submission_queue' = MergeQueues(loc.new_sub, live_sub)
            /\ subchange_queue' = MergeQueues(loc.new_chg, live_chg)
            /\ d_pc' = "idle"
            /\ todo' = {}
       ELSE /\ initialize_queue' = live_init
            /\ submission_queue' = live_sub
            /\ subchange_queue' = live_chg
            /\ d_pc' = loc.pc
            /\ todo' = loc.todo

\* an exception leaves dispatch_operations: the greenlet ends
Die ==
    /\ thread_alive' = FALSE
    /\ d_pc' = "dead"
    /\ UNCHANGED <<queue_vars, failed_rankings, new_initialize_queue,
                   new_submission_queue, new_subchange_queue, todo, cur,
                   init_step>>

\* lines 312-324: the swap
DispatchSwap ==
    /\ d_pc = "idle"
    /\ thread_alive
    /\ d_initialize_queue' = initialize_queue
    /\ d_submission_queue' = submission_queue
    /\ d_subchange_queue' = subchange_queue
    /\ log' = <<>>
    /\ enq_submission' = Empty
    /\ enq_subchange' = Empty
    /\ Continue([pc |-> "init", todo |-> initialize_queue, cur |-> "none",
                 init_step |-> 1, failed |-> {}, new_init |-> {},
                 new_sub |-> Empty, new_chg |-> Empty],
                submission_queue, subchange_queue, {}, Empty, Empty)
    /\ UNCHANGED <<store_vars, ledger_vars, env_vars, hist, initialized>>

\* lines 327-337 with initialize (378-433): one of its three PUTs
InitializePut(r, ok) ==
    /\ d_pc = "init"
    /\ \/ cur = "none" /\ r \in todo
       \/ cur = r
    /\ ok \in PutOutcomes(r)
    /\ LET step == IF cur = "none" THEN 1 ELSE init_step
           loc == [Locals EXCEPT !.todo = @ \ {r}]
       IN /\ log' = Append(log, [ranking |-> r, kind |-> InitKind[step], ok |-> ok,
                                 data |-> InitializeData(InitKind[step])])
          /\ IF ok
             THEN /\ Continue(IF step < 3
                              THEN [loc EXCEPT !.cur = r, !.init_step = step + 1]
                              ELSE [loc EXCEPT !.cur = "none", !.init_step = 1],
                              d_submission_queue, d_subchange_queue,
                              initialize_queue, submission_queue, subchange_queue)
                  /\ UNCHANGED thread_alive
             ELSE IF ExceptClause("CannotSendError")
             THEN /\ Continue([loc EXCEPT !.cur = "none", !.init_step = 1,
                                          !.new_init = @ \cup {r},
                                          !.failed = @ \cup {r}],
                              d_submission_queue, d_subchange_queue,
                              initialize_queue, submission_queue, subchange_queue)
                  /\ UNCHANGED thread_alive
             ELSE Die
    /\ UNCHANGED <<store_vars, ledger_vars, d_initialize_queue,
                   d_submission_queue, d_subchange_queue, healthy, raised, budget,
                   enq_submission, enq_subchange, hist>>
    /\ initialized' = IF ok /\ (IF cur = "none" THEN 1 ELSE init_step) = 3
                      THEN initialized \cup {r}
                      ELSE initialized

\* lines 390-396: Contest.get_from_id returns None, the contest is no longer
\* in the store the service shares with the admin; initialize raises KeyError
\* before its first PUT, inside the try of lines 330-337
InitializeNoContest(r) ==
    /\ d_pc = "init"
    /\ cur = "none"
    /\ r \in todo
    /\ log' = Append(log, [ranking |-> r, kind |-> "lookup", ok |-> FALSE, data |-> {}])
    /\ LET loc == [Locals EXCEPT !.todo = @ \ {r}]
       IN IF ExceptClause("KeyError")
          THEN /\ Continue([loc EXCEPT !.new_init = @ \cup {r},
                                       !.failed = @ \cup {r}],
                           d_submission_queue, d_subchange_queue,
                           initialize_queue, submission_queue, subchange_queue)
               /\ UNCHANGED thread_alive
          ELSE Die
    /\ UNCHANGED <<store_vars, ledger_vars, d_initialize_queue,
                   d_submission_queue, d_subchange_queue, healthy, raised, budget,
                   enq_submission, enq_subchange, hist, initialized>>

\* lines 340-350
SkipSubmissions(r) ==
    /\ d_pc = "submissions"
    /\ r \in todo
    /\ IsFailed(r, failed_rankings)
    /\ Continue([Locals EXCEPT !.todo = @ \ {r},
                               !.new_sub = Put(@, r, d_submission_queue[r])],
                d_submission_queue, d_subchange_queue,
                initialize_queue, submission_queue, subchange_queue)
    /\ UNCHANGED <<store_vars, ledger_vars, d_initialize_queue,
                   d_submission_queue, d_subchange_queue, env_vars, hist_vars>>

SendSubmissions(r, ok) ==
    /\ d_pc = "submissions"
    /\ r \in todo
    /\ ~IsFailed(r, failed_rankings)
    /\ ok \in PutOutcomes(r)
    /\ log' = Append(log, [ranking |-> r, kind |-> "submissions", ok |-> ok,
                           data |-> DOMAIN d_submission_queue[r]])
    /\ hist' = MarkPut(hist, r, "submission", d_submission_queue[r],
                       enq_submission, ok)
    /\ LET loc == [Locals EXCEPT !.todo = @ \ {r}]
       IN IF ok
          THEN /\ Continue(loc, d_submission_queue, d_subchange_queue,
                           initialize_queue, submission_queue, subchange_queue)
               /\ UNCHANGED thread_alive
          ELSE IF ExceptClause("CannotSendError")
          THEN /\ Continue([loc EXCEPT !.new_sub = Put(@, r, d_submission_queue[r]),
                                       !.failed = @ \cup {r}],
                           d_submission_queue, d_subchange_queue,
                           initialize_queue, submission_queue, subchange_queue)
               /\ UNCHANGED thread_alive
          ELSE Die
    /\ UNCHANGED <<store_vars, ledger_vars, d_initialize_queue,
                   d_submission_queue, d_subchange_queue, healthy, raised, budget,
                   enq_submission, enq_subchange, initialized>>

\* lines 353-363
SkipSubchanges(r) ==
    /\ d_pc = "subchanges"
    /\ r \in todo
    /\ IsFailed(r, failed_rankings)
    /\ Continue([Locals EXCEPT !.todo = @ \ {r},
                               !.new_chg = Put(@, r, d_subchange_queue[r])],
                d_submission_queue, d_subchange_queue,
                initialize_queue, submission_queue, subchange_queue)
    /\ UNCHANGED <<store_vars, ledger_vars, d_initialize_queue,
                   d_submission_queue, d_subchange_queue, env_vars, hist_vars>>

SendSubchanges(r, ok) ==
    /\ d_pc = "subchanges"
    /\ r \in todo
    /\ ~IsFailed(r, failed_rankings)
    /\ ok \in PutOutcomes(r)
    /\ log' = Append(log, [ranking |-> r, kind |-> "subchanges", ok |-> ok,
                           data |-> DOMAIN d_subchange_queue[r]])
    /\ hist' = MarkPut(hist, r, "subchange", d_subchange_queue[r],
                       enq_subchange, ok)
    /\ LET loc == [Locals EXCEPT !.todo = @ \ {r}]
       IN IF ok
          THEN /\ Continue(loc, d_submission_queue, d_subchange_queue,
                           initialize_queue, submission_queue, subchange_queue)
               /\ UNCHANGED thread_alive
          ELSE IF ExceptClause("CannotSendError")
          THEN /\ Continue([loc EXCEPT !.new_chg = Put(@, r, d_subchange_queue[r]),
                                       !.failed = @ \cup {r}],
                           d_submission_queue, d_subchange_queue,
                           initialize_queue, submission_queue, subchange_queue)
               /\ UNCHANGED thread_alive
          ELSE Die
    /\ UNCHANGED <<store_vars, ledger_vars, d_initialize_queue,
                   d_submission_queue, d_subchange_queue, healthy, raised, budget,
                   enq_submission, enq_subchange, initialized>>

\* -------------------------------------------------------- specifications
InvalidateInputs ==
    {NoFilter,
     [NoFilter EXCEPT !.submission_id = 1],
     [NoFilter EXCEPT !.dataset_id = 2]}

\* The handlers on a store that the judging pipeline, the contestants and the
\* admin change; the queues are not flushed.
Next ==
    \/ \E s \in FocusSubs, d \in FocusDatasets,
          x \in {"compiling", "fail", "ok", "evaluated"} : Judge(s, d, x)
    \/ \E s \in FocusSubs : PlayToken(s)
    \/ \E d \in FocusDatasets : SwitchActive("t1", d)
    \/ \E s \in FocusSubs \cup {UnknownSub}, d \in FocusDatasets \cup {UnknownDataset} :
          RpcNewEvaluation(s, d)
    \/ \E s \in FocusSubs \cup {UnknownSub} : RpcSubmissionTokened(s)
    \/ \E t \in Tasks : RpcDatasetUpdated(t)
    \/ RpcReinitialize
    \/ \E f \in InvalidateInputs : RpcInvalidateSubmission(f)
    \/ search_jobs_not_done
    \/ \E fresh \in BOOLEAN : score_old_submissions(fresh)

Spec == Init /\ [][Next]_vars

\* The scoring path and dataset_updated on a store where results get
\* evaluated and the admin switches the active dataset; submission NumSubs
\* is the one of task t2, whose dataset 3 gives blank ranking details.
DatasetSubs == FocusSubs \cup {NumSubs}
DatasetDatasets == FocusDatasets \cup {3}
NextDataset ==
    \/ \E s \in DatasetSubs, d \in DatasetDatasets : Judge(s, d, "evaluated")
    \/ \E d \in FocusDatasets : SwitchActive("t1", d)
    \/ \E s \in DatasetSubs, d \in DatasetDatasets : RpcNewEvaluation(s, d)
    \/ \E t \in Tasks : RpcDatasetUpdated(t)

SpecDataset == Init /\ [][NextDataset]_vars

\* The subchange ids on submissions and tokens of any time: a subchange of
\* kind "s" (score) or "t" (token) for submission s made at the given time is
\* set in every ranking's queue, as lines 557-565, 603-612 and 720-726 do.
KeyTimes == {1, 11, 12}
KeySubs == {1, 2, 11}
SetSubchange(time, s, suffix) ==
    /\ budget > 0
    /\ budget' = budget - 1
    /\ LET data == IF suffix = 115
                   THEN Subchange(s, time, {"score"}, compute_score(s, 1, TRUE), None)
                   ELSE Subchange(s, time, {"token"}, None, None)
           st == EnqueueSubchange(HState, Rankings,
                                  encode_id(SubchangeId(time, s, suffix)), data)
       IN Commit(st) /\ raised' = st.raised
    /\ UNCHANGED <<active, token, submission_results_to_score,
                   submissions_to_token, scoring_old_submission, timeouts,
                   running, steps, frames, initialize_queue, dispatch_vars, healthy,
                   thread_alive, log, initialized>>

InitKeys ==
    /\ InitService
    /\ res = [p \in Pairs |-> NoResult]
    /\ active = [t \in Tasks |-> IF t = "t1" THEN 1 ELSE 3]
    /\ token = [s \in Submissions |-> FALSE]
    /\ healthy = {}
    /\ budget = MaxKeyOps

NextKeys == \E time \in KeyTimes, s \in KeySubs, suffix \in {115, 116} :
               SetSubchange(time, s, suffix)

SpecKeys == InitKeys /\ [][NextKeys]_vars

\* encode_id on usernames of any bytes: the submission entry of submission
\* 1, made by a user of the given name (the UTF-8 bytes of it), is set in
\* every ranking's queue as lines 536-561 do. One entry is set in a run.
SampleBytes == {9, 15, 16, 46, 57, 95, 122, 200, 255}
RECURSIVE Strings(_, _)
Strings(bytes, n) ==
    IF n = 0 THEN {<<>>}
    ELSE LET shorter == Strings(bytes, n - 1)
         IN shorter \cup {<<b>> \o x : b \in bytes, x \in shorter}
Names == Strings(SampleBytes, MaxNameLen) \cup {<<b>> : b \in 0..255}

SetSubmissionOf(name) ==
    /\ submission_queue = Empty
    /\ budget' = budget
    /\ LET data == [user |-> encode_id(name),
                    task |-> encode_id(TaskName(TaskOf(1))),
                    time |-> Timestamp(1)]
           st == EnqueueSubmission(HState, Rankings, SubmissionKey(1), data)
       IN Commit(st) /\ raised' = st.raised
    /\ UNCHANGED <<active, token, submission_results_to_score,
                   submissions_to_token, scoring_old_submission, timeouts,
                   running, steps, frames, initialize_queue, dispatch_vars, healthy,
                   thread_alive, log, initialized>>

NextEncode == \E name \in Names : SetSubmissionOf(name)

SpecEncode == InitKeys /\ [][NextEncode]_vars

\* The flush rounds of dispatch_operations, with the RPCs that fill the
\* queues running between its PUTs.
FlushRpc ==
    \/ \E d \in FocusDatasets : RpcNewEvaluation(1, d)
    \/ RpcSubmissionTokened(1)
    \/ RpcDatasetUpdated("t1")
    \/ \E d \in FocusDatasets : SwitchActive("t1", d)

Flush ==
    \/ DispatchSwap
    \/ \E r \in Rankings, ok \in BOOLEAN : InitializePut(r, ok)
    \/ \E r \in Rankings : SkipSubmissions(r)
    \/ \E r \in Rankings, ok \in BOOLEAN : SendSubmissions(r, ok)
    \/ \E r \in Rankings : SkipSubchanges(r)
    \/ \E r \in Rankings, ok \in BOOLEAN : SendSubchanges(r, ok)

NextFlush == FlushRpc \/ Flush

SpecFlush == InitFlush /\ [][NextFlush]_vars

\* The flush rounds on a store from which the contest can be missing.
NextNoContest == NextFlush \/ \E r \in Rankings : InitializeNoContest(r)

SpecNoContest == InitFlush /\ [][NextNoContest]_vars

\* The flush rounds with a ranking that recovers. dispath_operations_thread
\* loops for ever and every PUT returns, with 200 or with a failure, so the
\* flush always takes its next step.
RetryRpc ==
    \/ RpcNewEvaluation(1, 1)
    \/ RpcDatasetUpdated("t1")

NextRetry == RetryRpc \/ Flush \/ \E r \in Rankings : Heal(r)

SpecRetry == InitRetry /\ [][NextRetry]_vars /\ WF_vars(Flush)

\* The flush rounds with reinitialize among the RPCs that run between the
\* PUTs.
NextReinit == RetryRpc \/ RpcReinitialize \/ Flush

SpecReinit == InitFlush /\ [][NextReinit]_vars

\* The drain with its suspension points, on a contest where the results of
\* submissions 1 and 3 under dataset 1 are evaluated, submission 1 is being
\* compiled under dataset 2 and a token was played on submission 3.
SuspendSubs == {1, 3}
InitSuspend ==
    /\ InitService
    /\ res = [p \in Pairs |->
                 IF p[1] \in SuspendSubs /\ p[2] = 1
                 THEN [NoResult EXCEPT !.status = "evaluated"]
                 ELSE IF p = <<1, 2>>
                 THEN [NoResult EXCEPT !.status = "compiling"]
                 ELSE NoResult]
    /\ active = [t \in Tasks |-> IF t = "t1" THEN 1 ELSE 3]
    /\ token = [s \in Submissions |-> s = 3]
    /\ healthy = {}
    /\ budget = MaxSuspendOps

NextSuspend ==
    \/ \E f \in InvalidateInputs : RpcInvalidateSubmission(f)
    \/ search_jobs_not_done
    \/ DrainBegin
    \/ \E i \in 1..MaxSuspendOps : DrainResume(i)

SpecSuspend == InitSuspend /\ [][NextSuspend]_vars

\* a step of the drain as the timeouts and the backlogs show it: the timeout
\* ends or items leave a backlog, which no other callback does
DrainEffect ==
    /\ timeouts > 0
    /\ \E ended \in BOOLEAN :
       \E popped_s \in {c \in SUBSET submission_results_to_score :
                           Cardinality(c) = Min(Cardinality(submission_results_to_score),
                                                ScoreCap)} :
       \E popped_t \in {{}} \cup Pops(submissions_to_token,
                                      Min(Cardinality(submissions_to_token), TokenCap)) :
          /\ ended \/ popped_s # {} \/ popped_t # {}
          /\ timeouts' = IF ended THEN timeouts - 1 ELSE timeouts
          /\ submission_results_to_score' = submission_results_to_score \ popped_s
          /\ submissions_to_token' = submissions_to_token \ popped_t

drain_vars == <<timeouts, submission_results_to_score, submissions_to_token>>

\* The catch-up scan and the drain with the invalidations and tokens that
\* fill the backlogs. The timeout of score_old_submissions fires every 0.5 s
\* until the callback returns False, so a drain that is alive takes its next
\* step.
NextDrain ==
    \/ RpcInvalidateSubmission(NoFilter)
    \/ RpcInvalidateSubmission([NoFilter EXCEPT !.dataset_id = 2])
    \/ \E s \in FocusSubs : PlayToken(s)
    \/ search_jobs_not_done
    \/ \E fresh \in BOOLEAN : score_old_submissions(fresh)

SpecDrain == InitDrain /\ [][NextDrain]_vars /\ WF_drain_vars(DrainEffect)

\* The catch-up after a start on a contest with old results.
Drain == \E fresh \in BOOLEAN : score_old_submissions(fresh)

NextCatchUp ==
    \/ search_jobs_not_done
    \/ Drain

SpecCatchUp == InitCatchUp /\ [][NextCatchUp]_vars /\ WF_drain_vars(DrainEffect)

\* ---------------------------------------------------------------- claims
HiddenSubmissionIds == {encode_id(DecStr(s)) : s \in {x \in Submissions : Hidden(UserOf(x))}}
\* the two preconditions of the scoring path, and its skip of hidden users
NewEvaluationPreconditions(s, d) ==
    /\ s \in Submissions
    /\ d \in Datasets
    /\ compiled(Result(res, s, d))
    /\ compilation_outcome(Result(res, s, d)) = "ok" => evaluated(Result(res, s, d))
NewEvaluationProceeds(s, d) ==
    NewEvaluationPreconditions(s, d) /\ ~Hidden(UserOf(s))

\* C1: privacy. In every reachable state no entry of any ranking's
\* submission queue is the submission of a hidden user, and no entry of any
\* ranking's subchange queue refers to the submission of a hidden user.
C1_Privacy ==
    /\ \A r \in DOMAIN submission_queue :
          \A k \in DOMAIN submission_queue[r] : k \notin HiddenSubmissionIds
    /\ \A r \in DOMAIN subchange_queue :
          \A k \in DOMAIN subchange_queue[r] :
              subchange_queue[r][k].submission \notin HiddenSubmissionIds

\* C8 as stated: a call new_evaluation(s, d) that passes its preconditions
\* (result compiled, and evaluated unless the compilation failed) with d not
\* the active dataset of the task stores the computed score on the result,
\* marks (s, d) scored and leaves the submission and subchange queues of
\* every ranking as they were.
C8_AsStated ==
    [][\A s \in Submissions, d \in Datasets :
          (RpcNewEvaluation(s, d) /\ NewEvaluationPreconditions(s, d)
               /\ d # active[TaskOf(s)])
          => /\ res'[<<s, d>>].score = compute_score(s, d, evaluated(res[<<s, d>>]))
             /\ <<s, d>> \in submission_results_scored'
             /\ submission_queue' = submission_queue
             /\ subchange_queue' = subchange_queue]_vars

\* C8, amended: scoring under a non-active dataset. A call
\* new_evaluation(s, d) that passes its preconditions for a user who is not
\* hidden, with d not the active dataset of the task, stores the computed
\* score and ranking details on the result, marks (s, d) scored and leaves
\* the submission and subchange queues of every ranking as they were.
C8_NonActiveScoring ==
    [][\A s \in Submissions, d \in Datasets :
          (RpcNewEvaluation(s, d) /\ NewEvaluationProceeds(s, d)
               /\ d # active[TaskOf(s)])
          => /\ res'[<<s, d>>].score = compute_score(s, d, evaluated(res[<<s, d>>]))
             /\ res'[<<s, d>>].details = ranking_details(s, d)
             /\ <<s, d>> \in submission_results_scored'
             /\ submission_queue' = submission_queue
             /\ subchange_queue' = subchange_queue]_vars

\* submission 1 was judged and scored under dataset 2 while dataset 1 is
\* active, and nothing was queued
C8_Witness ==
    /\ budget = MaxOps - 2
    /\ active["t1"] = 1
    /\ <<1, 2>> \in submission_results_scored
    /\ res[<<1, 2>>].score = 50
    /\ submission_queue = Empty
    /\ subchange_queue = Empty

\* C9: scoring under the active dataset. A call new_evaluation(s, d) that gets
\* past its early returns for a user who is not hidden, with d the active
\* dataset, stores the computed score, marks (s, d) scored, and in the queues
\* of every configured ranking sets exactly the submission entry under the
\* encoded submission id and exactly the subchange entry under the encoded
\* score subchange id, the latter carrying the stored score; every other
\* entry of the queues is as before.
C9_ActiveScoring ==
    [][\A s \in Submissions, d \in Datasets :
          (RpcNewEvaluation(s, d) /\ NewEvaluationProceeds(s, d)
               /\ d = active[TaskOf(s)])
          => /\ res'[<<s, d>>].score = compute_score(s, d, evaluated(res[<<s, d>>]))
             /\ <<s, d>> \in submission_results_scored'
             /\ DOMAIN submission_queue' = Rankings
             /\ DOMAIN subchange_queue' = Rankings
             /\ \A r \in Rankings :
                   LET old_s == Get(submission_queue, r, Empty)
                       old_c == Get(subchange_queue, r, Empty)
                       new_s == submission_queue'[r]
                       new_c == subchange_queue'[r]
                       ks == encode_id(DecStr(s))
                       kc == encode_id(DecStr(Timestamp(s)) \o DecStr(s) \o <<115>>)
                   IN /\ DOMAIN new_s = (DOMAIN old_s) \cup {ks}
                      /\ DOMAIN new_c = (DOMAIN old_c) \cup {kc}
                      /\ \A k \in (DOMAIN old_s) \ {ks} : new_s[k] = old_s[k]
                      /\ \A k \in (DOMAIN old_c) \ {kc} : new_c[k] = old_c[k]
                      /\ new_s[ks].time = Timestamp(s)
                      /\ new_c[kc].submission = ks
                      /\ "score" \in new_c[kc].keys
                      /\ new_c[kc].score = res'[<<s, d>>].score]_vars

\* Scenario A: submission 1 scored 100 under the active dataset 1, one
\* submission entry and one subchange entry with score 100 at every ranking
C9_Witness ==
    /\ budget = MaxOps - 2
    /\ active["t1"] = 1
    /\ <<1, 1>> \in submission_results_scored
    /\ res[<<1, 1>>].score = 100
    /\ \A r \in Rankings :
          /\ r \in DOMAIN submission_queue
          /\ r \in DOMAIN subchange_queue
          /\ Cardinality(DOMAIN submission_queue[r]) = 1
          /\ Cardinality(DOMAIN subchange_queue[r]) = 1
          /\ \A k \in DOMAIN subchange_queue[r] : subchange_queue[r][k].score = 100

\* ------------------------------------------------------- the flush round
Sent(r, kind, ok) ==
    \E i \in 1..Len(log) :
        log[i].ranking = r /\ log[i].kind = kind /\ log[i].ok = ok
Attempted(r, kind) == Sent(r, kind, TRUE) \/ Sent(r, kind, FALSE)
Stage(kind) == CASE kind = "contest" -> 1 [] kind = "users" -> 2
                 [] kind = "tasks" -> 3 [] kind = "submissions" -> 4
                 [] kind = "subchanges" -> 5
\* what the round took out of the live queues for ranking r
OrigSub(r) == Get(d_submission_queue, r, Empty)
OrigChg(r) == Get(d_subchange_queue, r, Empty)
LiveSub(r) == Get(submission_queue, r, Empty)
LiveChg(r) == Get(subchange_queue, r, Empty)
EnqSub(r) == Get(enq_submission, r, Empty)
EnqChg(r) == Get(enq_subchange, r, Empty)
\* q is kept overlaid by newer, the newer value winning on equal keys
Overlaid(kept, newer, q) ==
    /\ DOMAIN q = (DOMAIN kept) \cup (DOMAIN newer)
    /\ \A k \in DOMAIN q : q[k] = IF k \in DOMAIN newer THEN newer[k] ELSE kept[k]
Contains(q, part) == \A k \in DOMAIN part : k \in DOMAIN q
SubmissionOf(enc) == CHOOSE s \in Submissions : encode_id(DecStr(s)) = enc

\* C2: no dropped update and no duplicate PUT across a flush round. While a
\* round is in flight the live queues hold exactly the entries set since the
\* swap. After the round, for every ranking and each of its two queues: if
\* the round's batch of that queue was not delivered (its PUT failed or was
\* not attempted), the live queue is the round's original entries overlaid by
\* the entries set since the swap, the newer value winning on equal keys; if
\* the batch was PUT successfully, the live queue holds only the entries set
\* since the swap, so the round's entries are not PUT again.
C2_NoDropNoDuplicate ==
    \A r \in Rankings :
        IF d_pc = "idle"
        THEN /\ Overlaid(IF Sent(r, "submissions", TRUE) THEN Empty ELSE OrigSub(r),
                         EnqSub(r), LiveSub(r))
             /\ Overlaid(IF Sent(r, "subchanges", TRUE) THEN Empty ELSE OrigChg(r),
                         EnqChg(r), LiveChg(r))
        ELSE LiveSub(r) = EnqSub(r) /\ LiveChg(r) = EnqChg(r)

\* a round is over in which one ranking failed and another took its
\* subchanges, and an entry of the round was set again with another value
\* while the round was in flight
C2_Witness ==
    /\ d_pc = "idle"
    /\ \E r \in failed_rankings :
          \E k \in DOMAIN OrigChg(r) :
              /\ ~Sent(r, "subchanges", TRUE)
              /\ k \in DOMAIN EnqChg(r)
              /\ EnqChg(r)[k] # OrigChg(r)[k]
              /\ LiveChg(r)[k] = EnqChg(r)[k]
    /\ \E r \in Rankings :
          /\ Sent(r, "subchanges", TRUE)
          /\ OrigChg(r) # Empty
          /\ EnqChg(r) # Empty
          /\ LiveChg(r) = EnqChg(r)

\* C3 as stated: for a key set in a ranking's queue, exactly one PUT is sent
\* that carries it: never a second one unless the key is set again.
C3_ExactlyOnePutSent ==
    \A x \in DOMAIN hist : hist[x].sent <= 1

AllEntries ==
    {<<r, "submission", encode_id(DecStr(1))>> : r \in Rankings}
    \cup {<<r, "subchange", encode_id(ScoreSubchangeId(1))>> : r \in Rankings}
    \cup {<<r, "subchange", encode_id(TokenSubchangeId(1))>> : r \in Rankings}

C3_Safety ==
    /\ \A x \in DOMAIN hist : hist[x].acked <= 1
    /\ \A r \in Rankings :
          /\ \A k \in DOMAIN LiveSub(r) : LiveSub(r)[k] = hist[<<r, "submission", k>>].val
          /\ \A k \in DOMAIN LiveChg(r) : LiveChg(r)[k] = hist[<<r, "subchange", k>>].val
          /\ d_pc # "idle" =>
                /\ \A k \in (DOMAIN OrigSub(r)) \ (DOMAIN EnqSub(r)) :
                      OrigSub(r)[k] = hist[<<r, "submission", k>>].val
                /\ \A k \in (DOMAIN OrigChg(r)) \ (DOMAIN EnqChg(r)) :
                      OrigChg(r)[k] = hist[<<r, "subchange", k>>].val

\* C3, amended: merge law. If two entries with the same key are set in the
\* same queue of a ranking before a flush, every PUT sent for the key carries
\* the value set last: the pending entry, in the live queue or in the round
\* in flight, is always the last value set. A PUT that fails is sent again in
\* a later round, so more than one PUT may be sent, but exactly one of them
\* succeeds: never a second one unless the key is set again, and, once the
\* ranking answers 200 from some point on, eventually one.
C3_MergeLaw ==
    /\ []C3_Safety
    /\ \A x \in AllEntries :
          (x \in DOMAIN hist /\ x[1] \in healthy)
              ~> (x \in DOMAIN hist /\ hist[x].acked = 1)

\* the score subchange of submission 1 was set twice with different values
\* before a flush and the PUT that then succeeded carried the second
C3_Witness ==
    /\ budget = 0
    /\ \E r \in Rankings :
          LET x == <<r, "subchange", encode_id(ScoreSubchangeId(1))>>
          IN /\ x \in DOMAIN hist
             /\ hist[x].acked = 1
             /\ hist[x].sent = 2
             /\ hist[x].val.score = 100
             /\ OrigChg(r)[x[3]] = hist[x].val
             /\ DOMAIN EnqChg(r) = {}
    /\ <<1, 1>> \in submission_results_scored
    /\ submissions_tokened = {}

\* C4 as stated: endpoint isolation. After a round in which ranking A failed
\* (at initialize, submissions or subchanges) and ranking B did not, every
\* batch the round held for B was PUT, B's queues hold only the entries set
\* during the round, and A's queues still contain all of A's original
\* entries of the round.
C4_AsStated ==
    d_pc = "idle" =>
        \A a \in failed_rankings, b \in Rankings \ failed_rankings :
            /\ b \in d_initialize_queue => Sent(b, "tasks", TRUE)
            /\ b \in DOMAIN d_submission_queue => Sent(b, "submissions", TRUE)
            /\ b \in DOMAIN d_subchange_queue => Sent(b, "subchanges", TRUE)
            /\ LiveSub(b) = EnqSub(b)
            /\ LiveChg(b) = EnqChg(b)
            /\ Contains(LiveSub(a), OrigSub(a))
            /\ Contains(LiveChg(a), OrigChg(a))

\* C4, amended: endpoint isolation. After a round in which ranking A failed
\* (at initialize, submissions or subchanges) and ranking B did not, every
\* batch the round held for B was PUT, B's queues hold only the entries set
\* during the round, and A's queues still contain all of A's original
\* entries of the round that were not PUT successfully before A failed: all
\* of them when A failed at initialize or at submissions, the subchange
\* entries when A failed at subchanges.
C4_Isolation ==
    d_pc = "idle" =>
        \A a \in failed_rankings, b \in Rankings \ failed_rankings :
            /\ b \in d_initialize_queue => Sent(b, "tasks", TRUE)
            /\ b \in DOMAIN d_submission_queue => Sent(b, "submissions", TRUE)
            /\ b \in DOMAIN d_subchange_queue => Sent(b, "subchanges", TRUE)
            /\ LiveSub(b) = EnqSub(b)
            /\ LiveChg(b) = EnqChg(b)
            /\ ~Sent(a, "submissions", TRUE) => Contains(LiveSub(a), OrigSub(a))
            /\ Contains(LiveChg(a), OrigChg(a))
            /\ ~Sent(a, "subchanges", TRUE)

\* Scenario B: both rankings had one pending submission entry, A failed and
\* B's PUT went through; B's queues are empty, A's entry is still queued
C4_Witness ==
    /\ d_pc = "idle"
    /\ failed_rankings = {"A"}
    /\ Cardinality(DOMAIN OrigSub("A")) = 1
    /\ Cardinality(DOMAIN OrigSub("B")) = 1
    /\ Sent("B", "submissions", TRUE)
    /\ ~Sent("A", "submissions", TRUE)
    /\ "B" \notin DOMAIN submission_queue
    /\ "B" \notin DOMAIN subchange_queue
    /\ LiveSub("A") = OrigSub("A")

\* C5: per-endpoint ordering inside a flush round. The PUTs of one round to
\* one ranking are in the order initialize (contest, users, tasks),
\* submissions, subchanges: the submissions or subchanges are sent only after
\* a pending initialize went through, the subchanges only after the pending
\* submissions went through. After a failed PUT to the ranking nothing more
\* is sent to it in the round, and after the round its initialize is pending
\* again if it was not completed and the entries of its batches that were
\* not delivered are in its live queues.
C5_StageOrder ==
    /\ \A i \in 1..Len(log) : \A j \in 1..Len(log) :
          (i < j /\ log[i].ranking = log[j].ranking)
              => log[i].ok /\ Stage(log[i].kind) < Stage(log[j].kind)
    /\ \A j \in 1..Len(log) :
          LET r == log[j].ranking IN
          /\ ~log[j].ok => r \in failed_rankings
          /\ (Stage(log[j].kind) >= 4 /\ r \in d_initialize_queue)
                => Sent(r, "contest", TRUE) /\ Sent(r, "users", TRUE)
                       /\ Sent(r, "tasks", TRUE)
          /\ (Stage(log[j].kind) = 5 /\ r \in DOMAIN d_submission_queue)
                => Sent(r, "submissions", TRUE)
    /\ d_pc = "idle" =>
          \A r \in failed_rankings :
              /\ (r \in d_initialize_queue /\ ~Sent(r, "tasks", TRUE))
                    => r \in initialize_queue
              /\ ~Sent(r, "submissions", TRUE) => Contains(LiveSub(r), OrigSub(r))
              /\ ~Sent(r, "subchanges", TRUE) /\ Contains(LiveChg(r), OrigChg(r))

\* a round is over in which a ranking was initialized, then failed at its
\* submissions; its subchanges were not attempted and both batches are kept
C5_Witness ==
    /\ d_pc = "idle"
    /\ \E r \in failed_rankings :
          /\ r \in d_initialize_queue
          /\ Sent(r, "tasks", TRUE)
          /\ Sent(r, "submissions", FALSE)
          /\ OrigChg(r) # Empty
          /\ ~Attempted(r, "subchanges")
          /\ r \notin initialize_queue
          /\ LiveSub(r) = OrigSub(r)
          /\ LiveChg(r) = OrigChg(r)

Drained(r) ==
    /\ d_pc = "idle"
    /\ r \notin initialize_queue
    /\ r \notin DOMAIN submission_queue
    /\ r \notin DOMAIN subchange_queue

\* C6: transport failures are retried, not surfaced. No exception leaves
\* dispatch_operations (its greenlet keeps looping) and none reaches the
\* caller of an RPC; after a round the work of a ranking that failed is queued
\* for the next round; and once a ranking answers 200 from some point on, its
\* pending initialize and all its queued entries are delivered: its queues
\* become empty.
C6_Retried ==
    /\ [](thread_alive /\ raised = "none")
    /\ [](d_pc = "idle" =>
             \A r \in failed_rankings :
                 \/ r \in initialize_queue
                 \/ r \in DOMAIN submission_queue
                 \/ r \in DOMAIN subchange_queue)
    /\ \A r \in Rankings : (r \in healthy) ~> Drained(r)

\* a ranking failed a PUT of its subchanges, recovered, and a later round
\* delivered them: nothing is pending for it
C6_Witness ==
    /\ \E r \in healthy :
          /\ Drained(r)
          /\ \E x \in DOMAIN hist :
                x[1] = r /\ x[2] = "subchange" /\ hist[x].sent = 2 /\ hist[x].acked = 1
    /\ thread_alive

\* C7 as stated: whenever a score subchange is PUT to a ranking, the score it
\* carries is the stored score of the submission's result under the dataset
\* that is the task's active dataset at that moment.
C7_AsStated ==
    [][\A r \in Rankings, ok \in BOOLEAN :
          SendSubchanges(r, ok)
          => \A k \in DOMAIN d_subchange_queue[r] :
                LET e == d_subchange_queue[r][k]
                    s == SubmissionOf(e.submission)
                IN "score" \in e.keys
                   => e.score = res[<<s, active[TaskOf(s)]>>].score]_vars

\* C10: no duplicate scanning. A step of search_jobs_not_done adds to the
\* scoring backlog no pair that is marked scored, adds to the token backlog
\* no submission that is marked tokened, and changes neither backlog while a
\* drain is in progress: a timeout of score_old_submissions that ran a step
\* and returned True, so that it runs again.
C10_NoDuplicateScanning ==
    [][search_jobs_not_done =>
          /\ (submission_results_to_score' \ submission_results_to_score)
                 \cap submission_results_scored = {}
          /\ (submissions_to_token' \ submissions_to_token)
                 \cap submissions_tokened = {}
          /\ running > 0 =>
                UNCHANGED <<submission_results_to_score, submissions_to_token>>]_vars

\* C11: at most one catch-up drain at a time. After any sequence of
\* search_jobs_not_done, invalidate_submission and drain steps at most one
\* timeout of score_old_submissions is alive.
C11_AtMostOneDrain == timeouts <= 1

\* C12: between callbacks, a backlog is non-empty exactly when a timeout of
\* score_old_submissions is alive.
C12_BacklogIffTimeout ==
    (submission_results_to_score # {} \/ submissions_to_token # {})
        <=> timeouts > 0

\* what a step of score_old_submissions took from the backlogs
PoppedResults == submission_results_to_score \ submission_results_to_score'
PoppedTokens == submissions_to_token \ submissions_to_token'
Smaller(a, b) == IF a <= b THEN a ELSE b

\* C13 as stated: each execution of score_old_submissions processes
\* min(4, n) items of the scoring backlog and min(16, m) items of the token
\* backlog, n and m being the sizes at the start of the step.
C13_AsStated ==
    [][Drain =>
          /\ Cardinality(PoppedResults)
                 = Smaller(Cardinality(submission_results_to_score), ScoreCap)
          /\ Cardinality(PoppedTokens)
                 = Smaller(Cardinality(submissions_to_token), TokenCap)]_vars

\* C13, amended: per-step caps of the drain. Each execution of
\* score_old_submissions takes min(4, n) items from the scoring backlog and
\* passes each to new_evaluation (which marks it scored unless the user is
\* hidden). If n <= 4 it then takes min(16, m) items from the token backlog
\* and passes each to submission_tokened; if n > 4 it returns before the
\* token loop and takes no token in that step. It adds nothing to a backlog
\* and never takes more than 4 scoring items or 16 token items.
C13_StepCaps ==
    [][Drain =>
          LET n == Cardinality(submission_results_to_score)
              m == Cardinality(submissions_to_token)
          IN /\ submission_results_to_score' \subseteq submission_results_to_score
             /\ submissions_to_token' \subseteq submissions_to_token
             /\ Cardinality(PoppedResults) = Smaller(n, ScoreCap)
             /\ Cardinality(PoppedTokens)
                    = IF n > ScoreCap THEN 0 ELSE Smaller(m, TokenCap)
             /\ Cardinality(PoppedResults) <= ScoreCap
             /\ Cardinality(PoppedTokens) <= TokenCap
             /\ \A p \in PoppedResults :
                    ~Hidden(UserOf(p[1])) => p \in submission_results_scored'
             /\ \A x \in PoppedTokens :
                    ~Hidden(UserOf(x)) => x \in submissions_tokened']_vars

\* a drain on ten results and more than 16 tokens took 4, 4, then 2 results
\* and 16 tokens, and tokens are left for its next step
C13_Witness ==
    /\ steps = <<(<<ScoreCap, 0>>), (<<ScoreCap, 0>>), (<<2, TokenCap>>)>>
    /\ submissions_to_token # {}
    /\ submission_results_to_score = {}
    /\ scoring_old_submission

RECURSIVE SumOf(_, _)
SumOf(seq, i) == IF seq = <<>> THEN 0 ELSE Head(seq)[i] + SumOf(Tail(seq), i)
\* the backlog sizes the last drain started on, no work being added since
DrainStart ==
    <<Cardinality(submission_results_to_score) + SumOf(steps, 1),
      Cardinality(submissions_to_token) + SumOf(steps, 2)>>
ScenarioD == <<(<<ScoreCap, 0>>), (<<ScoreCap, 0>>), (<<2, 0>>)>>

\* C14: drain termination. With no new work added, a step of
\* score_old_submissions is rescheduled (the timeout stays alive and the
\* draining flag is set) when a backlog is non-empty after it, and otherwise
\* returns False and clears the flag: the drain stops exactly at the step
\* after which both backlogs are empty. A drain started on 10 scoring items
\* and no token takes three steps of 4, 4 and 2 items. Every drain stops.
C14_DrainTermination ==
    /\ [][Drain =>
             IF submission_results_to_score' # {} \/ submissions_to_token' # {}
             THEN timeouts' = timeouts /\ scoring_old_submission'
             ELSE timeouts' = timeouts - 1 /\ ~scoring_old_submission']_vars
    /\ []((steps # <<>> /\ DrainStart = <<10, 0>>) =>
             /\ \E k \in 1..3 : steps = SubSeq(ScenarioD, 1, k)
             /\ Len(steps) < 3 => timeouts = 1 /\ scoring_old_submission
             /\ Len(steps) = 3 => timeouts = 0 /\ ~scoring_old_submission)
    /\ (timeouts > 0) ~> (timeouts = 0)

\* the drain on the 10 results of the start stopped after its third step
C14_Witness ==
    /\ steps = ScenarioD
    /\ timeouts = 0
    /\ ~scoring_old_submission
    /\ submission_results_to_score = {}
    /\ Cardinality(submission_results_scored) = 8

\* C15: effect of invalidate_submission on the ledger. Right after the call
\* every matching result that was evaluated has its score fields cleared, is
\* in the scoring backlog and is not marked scored; a matching result that
\* is not evaluated is neither cleared nor queued.
C15_InvalidateLedger ==
    [][\A f \in InvalidateInputs :
          RpcInvalidateSubmission(f) =>
              \A p \in get_submission_results(res, f) :
                  IF evaluated(res[p])
                  THEN /\ res'[p].score = None
                       /\ res'[p].details = None
                       /\ p \in submission_results_to_score'
                       /\ p \notin submission_results_scored'
                  ELSE /\ res'[p] = res[p]
                       /\ p \in submission_results_to_score'
                              => p \in submission_results_to_score]_vars

\* C16: invalidate_submission starts the drain when the backlogs were empty.
\* If both backlogs were empty before the call and the call queued a result,
\* a timeout of score_old_submissions is added; if a backlog was non-empty, a
\* timeout is alive already and none is added.
C16_InvalidateStartsDrain ==
    [][\A f \in InvalidateInputs :
          RpcInvalidateSubmission(f) =>
              LET was_empty == /\ submission_results_to_score = {}
                               /\ submissions_to_token = {}
                  queued == submission_results_to_score'
                                \ submission_results_to_score
              IN /\ (was_empty /\ queued # {}) => timeouts' = timeouts + 1
                 /\ ~was_empty => timeouts >= 1 /\ timeouts' = timeouts]_vars

\* two invalidations of the whole contest: the first started the drain on
\* the five evaluated results, the second found the backlog non-empty
C16_Witness ==
    /\ budget = MaxDrainOps - 2
    /\ timeouts = 1
    /\ submission_results_to_score = {p \in Pairs : p[1] \in DrainSubs /\ p[2] = 1}
    /\ token = [s \in Submissions |-> FALSE]
    /\ steps = <<>>

DrainPairs == {p \in Pairs : p[1] \in DrainSubs /\ p[2] = 1}

\* C17 as stated: every evaluated result that invalidate_submission() queued
\* eventually reaches scored with recomputed score fields.
C17_AsStated ==
    \A p \in DrainPairs :
        (p \in submission_results_to_score /\ evaluated(res[p]))
            ~> (p \in submission_results_scored /\ res[p].score # None)

\* C17, amended: invalidation completeness. invalidate_submission() with no
\* filters clears the score fields of every evaluated result of the contest
\* and puts it in the scoring backlog. Under fair scheduling of the drain each
\* such result is eventually taken from the backlog and passed to
\* new_evaluation again, and each result of a user who is not hidden reaches
\* scored with recomputed score fields. For the result of a hidden user
\* new_evaluation returns before it scores: its score fields stay cleared.
C17_InvalidationCompleteness ==
    /\ [][RpcInvalidateSubmission(NoFilter) =>
             \A p \in Pairs :
                 evaluated(res[p]) =>
                     /\ res'[p].score = None
                     /\ res'[p].details = None
                     /\ p \in submission_results_to_score']_vars
    /\ [](\A p \in DrainPairs :
             Hidden(UserOf(p[1])) =>
                 p \notin submission_results_scored /\ res[p].score = None)
    /\ \A p \in DrainPairs :
          /\ (p \in submission_results_to_score)
                 ~> (p \notin submission_results_to_score)
          /\ (p \in submission_results_to_score /\ ~Hidden(UserOf(p[1])))
                 ~> (/\ p \in submission_results_scored
                     /\ p \notin submission_results_to_score
                     /\ res[p].score = compute_score(p[1], p[2], TRUE))

\* the results were scored and then invalidated, and the drain is under
\* way: one is scored again, another is still queued with its score cleared
C17_Witness ==
    /\ steps = <<(<<ScoreCap, 0>>)>>
    /\ \E q \in submission_results_to_score \cap submission_results_scored :
          res[q].score = None /\ ~Hidden(UserOf(q[1]))
    /\ \E p \in submission_results_scored \ submission_results_to_score :
          res[p].score = compute_score(p[1], p[2], TRUE)

\* C18: scan completeness. After search_jobs_not_done runs while no drain is
\* in progress, the scoring backlog contains every pair of a submission and
\* a dataset to judge whose result is evaluated or failed to compile and is
\* not marked scored, the token backlog contains every submission with a
\* token that is not marked tokened, and a timeout of score_old_submissions
\* is added if the scan found work while both backlogs were empty.
C18_ScanCompleteness ==
    [][(search_jobs_not_done /\ running = 0) =>
          LET work_s == {p \in Pairs :
                            /\ p[2] \in get_datasets_to_judge(active, TaskOf(p[1]))
                            /\ res[p].status \in {"evaluated", "fail"}
                            /\ p \notin submission_results_scored}
              work_t == {s \in Submissions : token[s] /\ s \notin submissions_tokened}
          IN /\ work_s \subseteq submission_results_to_score'
             /\ work_t \subseteq submissions_to_token'
             /\ (/\ work_s # {} \/ work_t # {}
                 /\ submission_results_to_score = {}
                 /\ submissions_to_token = {})
                    => timeouts' = timeouts + 1]_vars

\* the scan found a result that failed to compile and a token, and
\* scheduled the drain
C18_Witness ==
    /\ \E p \in submission_results_to_score : res[p].status = "fail"
    /\ \E s \in submissions_to_token : token[s]
    /\ timeouts = 1
    /\ running = 0
    /\ steps = <<>>
    /\ submission_results_scored = {}

\* C19: a precondition mismatch is a no-op. new_evaluation(s, d) on a result
\* that does not exist or is not compiled, or that compiled successfully and
\* is not evaluated, raises no error and leaves the stored results, the
\* scored and tokened sets, the backlogs and all dispatch queues unchanged.
C19_MismatchNoOp ==
    [][\A s \in FocusSubs, d \in FocusDatasets :
          (RpcNewEvaluation(s, d) /\ res[<<s, d>>].status \in {"absent", "compiling", "ok"})
              => /\ raised' = "none"
                 /\ UNCHANGED <<store_vars, ledger_vars, queue_vars, hist_vars>>]_vars

\* new_evaluation was called on a result that compiled and is not evaluated
C19_Witness ==
    /\ raised = "none"
    /\ budget = MaxOps - 2
    /\ res[<<1, 1>>].status = "ok"
    /\ \A p \in Pairs \ {<<1, 1>>} : res[p] = NoResult
    /\ res[<<1, 1>>].score = None
    /\ submission_results_scored = {}
    /\ submission_queue = Empty
    /\ subchange_queue = Empty
    /\ timeouts = 0

\* C20: a lookup failure is fatal to the call only. new_evaluation with an
\* unknown submission or dataset id and submission_tokened with an unknown
\* submission id report an error to the caller and leave the store, the
\* ledger, the backlogs and every dispatch queue unchanged; a later call is
\* handled as if the failed one had not happened.
C20_LookupFailure ==
    [][/\ \A s \in FocusSubs \cup {UnknownSub}, d \in FocusDatasets \cup {UnknownDataset} :
             (RpcNewEvaluation(s, d) /\ (s = UnknownSub \/ d = UnknownDataset))
                 => /\ raised' = "ValueError"
                    /\ UNCHANGED <<store_vars, ledger_vars, queue_vars, hist_vars>>
       /\ RpcSubmissionTokened(UnknownSub)
             => /\ raised' = "KeyError"
                /\ UNCHANGED <<store_vars, ledger_vars, queue_vars, hist_vars>>
       /\ \A s \in FocusSubs, d \in FocusDatasets :
             (raised # "none" /\ RpcNewEvaluation(s, d) /\ NewEvaluationProceeds(s, d))
                 => /\ raised' = "none"
                    /\ <<s, d>> \in submission_results_scored'
                    /\ res'[<<s, d>>].score = compute_score(s, d, evaluated(res[<<s, d>>]))
       /\ \A s \in FocusSubs :
             (raised # "none" /\ RpcSubmissionTokened(s) /\ token[s] /\ ~Hidden(UserOf(s)))
                 => /\ raised' = "none"
                    /\ s \in submissions_tokened']_vars

\* a call with an unknown id failed, and the call after it scored a result
C20_Witness ==
    /\ raised = "none"
    /\ budget = MaxOps - 3
    /\ submission_results_scored = {<<1, 1>>}
    /\ res[<<1, 1>>].score = compute_score(1, 1, TRUE)
    /\ \A p \in Pairs \ {<<1, 1>>} : res[p] = NoResult
    /\ token = [s \in Submissions |-> FALSE]
    /\ timeouts = 0

\* C21: an unknown contest id met by initialize(ranking) is fatal for the
\* whole service: once the lookup has failed in a flush round the service has
\* stopped, and the ranking is not kept for a retry like one whose PUT
\* failed.
C21_AsStated ==
    \A i \in DOMAIN log :
        log[i].kind = "lookup" =>
            /\ ~thread_alive
            /\ log[i].ranking \notin new_initialize_queue \cup initialize_queue

\* what the tokening path does for submission s
Tokened(s) ==
    /\ raised' = "none"
    /\ s \in submissions_tokened'
    /\ \A r \in Rankings :
          /\ r \in DOMAIN submission_queue' /\ r \in DOMAIN subchange_queue'
          /\ LET key == encode_id(DecStr(s))
                 tkey == encode_id(DecStr(TokenTimestamp(s)) \o DecStr(s) \o <<116>>)
                 old_s == Get(submission_queue, r, Empty)
                 old_c == Get(subchange_queue, r, Empty)
             IN /\ DOMAIN submission_queue'[r] = DOMAIN old_s \cup {key}
                /\ submission_queue'[r][key].time = Timestamp(s)
                /\ \A k \in DOMAIN old_s \ {key} : submission_queue'[r][k] = old_s[k]
                /\ DOMAIN subchange_queue'[r] = DOMAIN old_c \cup {tkey}
                /\ subchange_queue'[r][tkey].keys = {"token"}
                /\ subchange_queue'[r][tkey].time = TokenTimestamp(s)
                /\ subchange_queue'[r][tkey].submission = key
                /\ \A k \in DOMAIN old_c \ {tkey} : subchange_queue'[r][k] = old_c[k]
    /\ UNCHANGED <<store_vars, submission_results_scored, submission_results_to_score,
                   submissions_to_token, scoring_old_submission, timeouts>>

\* C22 as stated: submission_tokened(s) for a non-hidden user marks s tokened
\* and sets, for every ranking, one submission entry and one subchange entry
\* with the token flag and the token's timestamp, whatever the active dataset
\* is, and changes no stored score and no scoring-ledger state.
C22_AsStated ==
    [][\A s \in FocusSubs :
          (RpcSubmissionTokened(s) /\ ~Hidden(UserOf(s))) => Tokened(s)]_vars

\* C22: the same for a submission of a non-hidden user on which a token was
\* played.
C22_TokeningPath ==
    [][\A s \in FocusSubs :
          (RpcSubmissionTokened(s) /\ ~Hidden(UserOf(s)) /\ token[s]) => Tokened(s)]_vars

\* the token of submission 1 was enqueued while dataset 2, not the initial
\* one, was the active dataset of its task
C22_Witness ==
    /\ active["t1"] = 2
    /\ token[1]
    /\ submissions_tokened = {1}
    /\ raised = "none"
    /\ \A r \in Rankings :
          /\ r \in DOMAIN subchange_queue
          /\ \E k \in DOMAIN subchange_queue[r] :
                /\ subchange_queue[r][k].keys = {"token"}
                /\ subchange_queue[r][k].time = TokenTimestamp(1)
    /\ submission_results_scored = {}

C24_DatasetUpdated ==
    [][\A t \in Tasks :
          RpcDatasetUpdated(t) =>
             /\ raised' = "none"
             /\ \A r \in Rankings :
                   /\ r \in DOMAIN subchange_queue'
                   /\ \A s \in {x \in Submissions : TaskOf(x) = t} :
                         LET key == encode_id(DecStr(Timestamp(s)) \o DecStr(s) \o <<115>>)
                             sr == res[<<s, active[t]>>]
                         IN /\ key \in DOMAIN subchange_queue'[r]
                            /\ subchange_queue'[r][key].submission = encode_id(DecStr(s))
                            /\ subchange_queue'[r][key].time = Timestamp(s)
                            /\ "token" \notin subchange_queue'[r][key].keys
                            /\ IF sr.status # "absent" /\ sr.score # None
                               THEN /\ "score" \in subchange_queue'[r][key].keys
                                    /\ subchange_queue'[r][key].score = sr.score
                               ELSE "score" \notin subchange_queue'[r][key].keys
                   /\ \A k \in DOMAIN Get(subchange_queue, r, Empty) :
                         (\A s \in Submissions :
                             TaskOf(s) = t =>
                                k # encode_id(DecStr(Timestamp(s)) \o DecStr(s) \o <<115>>))
                            => subchange_queue'[r][k] = subchange_queue[r][k]
             /\ UNCHANGED <<store_vars, ledger_vars, submission_queue,
                            initialize_queue>>]_vars

\* dataset 2 became the active dataset of t1 after submission 1 was scored
\* under it, and dataset_updated queued that score for submission 1 and a
\* payload without score for submission 3
C24_Witness ==
    /\ active["t1"] = 2
    /\ res[<<1, 2>>].score = compute_score(1, 2, TRUE)
    /\ \A r \in Rankings :
          /\ r \in DOMAIN subchange_queue
          /\ encode_id(ScoreSubchangeId(1)) \in DOMAIN subchange_queue[r]
          /\ subchange_queue[r][encode_id(ScoreSubchangeId(1))].score = res[<<1, 2>>].score
          /\ "score" \in subchange_queue[r][encode_id(ScoreSubchangeId(1))].keys
          /\ encode_id(ScoreSubchangeId(3)) \in DOMAIN subchange_queue[r]
          /\ subchange_queue[r][encode_id(ScoreSubchangeId(3))].keys = {}
    /\ submission_queue = Empty

\* the PUTs of initialize(r) in the round of the log
InitLog(r) ==
    LET OfInit(e) == e.ranking = r /\ e.kind \in {"contest", "users", "tasks"}
    IN SelectSeq(log, OfInit)

\* C25: the initialize sequence. For a ranking whose initialize was pending
\* at the swap, the PUTs of the round are contest, users, tasks in this
\* order; the users payload holds no hidden user; a failed step is the last
\* of the round for the ranking, which is then marked failed and whose
\* initialize is pending again after the round; the initialize is no longer
\* pending only if all three steps succeeded.
C25_InitializeSequence ==
    \A r \in d_initialize_queue :
       LET puts == InitLog(r)
           all_ok == \A i \in DOMAIN puts : puts[i].ok
       IN /\ Len(puts) <= 3
          /\ \A i \in DOMAIN puts :
                /\ puts[i].kind = <<"contest", "users", "tasks">>[i]
                /\ ~puts[i].ok => i = Len(puts)
                /\ puts[i].kind = "users" =>
                      \A s \in Submissions :
                         Hidden(UserOf(s)) => encode_id(Username(UserOf(s))) \notin puts[i].data
          /\ ~all_ok =>
                /\ r \in failed_rankings
                /\ IF d_pc = "idle" THEN r \in initialize_queue
                                    ELSE r \in new_initialize_queue
          /\ (d_pc = "idle" /\ r \notin initialize_queue) => Len(puts) = 3 /\ all_ok
          /\ (d_pc # "idle" /\ r \notin todo /\ cur # r /\ r \notin new_initialize_queue)
                => Len(puts) = 3 /\ all_ok

\* a finished round in which ranking A took the contest and failed on the
\* users, and ranking B took all three steps
C25_Witness ==
    /\ d_pc = "idle"
    /\ d_initialize_queue = Rankings
    /\ Len(InitLog("A")) = 2
    /\ InitLog("A")[1].ok /\ ~InitLog("A")[2].ok
    /\ Len(InitLog("B")) = 3
    /\ InitLog("B")[3].ok
    /\ initialize_queue = {"A"}

\* the pending subchanges of ranking r that the step replaced by one of
\* another submission or kind
Clobbered(r) ==
    {k \in DOMAIN Get(subchange_queue, r, Empty) :
        \/ subchange_queue'[r][k].submission # subchange_queue[r][k].submission
        \/ subchange_queue'[r][k].keys # subchange_queue[r][k].keys}

\* C26 as stated: subchange keys do not collide. The score update and the
\* token update of one submission have different keys and two events of
\* different submissions never get the same key, so a pending subchange is
\* only ever overwritten by a subchange of the same submission and kind.
C26_AsStated ==
    [][\A r \in Rankings : Clobbered(r) = {}]_vars

\* C26: the same for events whose timestamps have the same number of
\* decimal digits: a pending subchange is overwritten only by a subchange of
\* the same submission and kind, or by one whose timestamp has another
\* number of digits.
C26_KeysSameWidth ==
    [][\A r \in Rankings : \A k \in Clobbered(r) :
          Len(DecStr(subchange_queue'[r][k].time))
             # Len(DecStr(subchange_queue[r][k].time))]_vars

\* a score and a token subchange of submission 11 made in the same second
\* are both pending
C26_Witness ==
    /\ budget = 0
    /\ \A r \in Rankings :
          /\ r \in DOMAIN subchange_queue
          /\ Cardinality(DOMAIN subchange_queue[r]) = 2
          /\ \A k \in DOMAIN subchange_queue[r] :
                /\ subchange_queue[r][k].time = 12
                /\ subchange_queue[r][k].submission = encode_id(DecStr(11))
          /\ \E k \in DOMAIN subchange_queue[r] : subchange_queue[r][k].keys = {"token"}

\* the hexadecimal digit of a value 0..15
HexChar(v) == <<48, 49, 50, 51, 52, 53, 54, 55, 56, 57, 97, 98, 99, 100, 101, 102>>[v + 1]
InAlphabet(c) == c \in (48..57) \cup (65..90) \cup (97..122) \cup {95}

\* every letter or digit unchanged, every other byte as an underscore and
\* its two hexadecimal digits
RECURSIVE TwoHexDigits(_)
TwoHexDigits(str) ==
    IF str = <<>> THEN <<>>
    ELSE (IF Head(str) \in (48..57) \cup (65..90) \cup (97..122) THEN <<Head(str)>>
          ELSE <<95, HexChar(Head(str) \div 16), HexChar(Head(str) % 16)>>)
         \o TwoHexDigits(Tail(str))

\* the same with the bytes below 16 as an underscore, the letter x and the
\* one hexadecimal digit of the byte
RECURSIVE LastTwoOfHex(_)
LastTwoOfHex(str) ==
    IF str = <<>> THEN <<>>
    ELSE (IF Head(str) \in (48..57) \cup (65..90) \cup (97..122) THEN <<Head(str)>>
          ELSE IF Head(str) < 16 THEN <<95, 120, HexChar(Head(str))>>
          ELSE <<95, HexChar(Head(str) \div 16), HexChar(Head(str) % 16)>>)
         \o LastTwoOfHex(Tail(str))

\* C27 as stated: the output of encode_id contains only letters, digits and
\* underscore; every letter or digit byte is passed through unchanged and
\* every other byte is replaced by an underscore followed by exactly two
\* hexadecimal digits of that byte.
C27_AsStated ==
    [][\A name \in Names :
          SetSubmissionOf(name) =>
             \A r \in Rankings :
                LET out == submission_queue'[r][SubmissionKey(1)].user
                IN /\ \A i \in DOMAIN out : InAlphabet(out[i])
                   /\ out = TwoHexDigits(name)]_vars

\* C27: the output of encode_id contains only letters, digits and
\* underscore; letters and digits pass unchanged; a byte of value 16..255 is
\* replaced by an underscore and its two hexadecimal digits, a byte of value
\* 0..15 by an underscore, the letter x and its one hexadecimal digit.
C27_Encoding ==
    [][\A name \in Names :
          SetSubmissionOf(name) =>
             \A r \in Rankings :
                LET out == submission_queue'[r][SubmissionKey(1)].user
                IN /\ \A i \in DOMAIN out : InAlphabet(out[i])
                   /\ out = LastTwoOfHex(name)]_vars

\* the entry of a user named by a tab and a dot is pending: "_x9_2e"
C27_Witness ==
    \A r \in Rankings :
       /\ r \in DOMAIN submission_queue
       /\ SubmissionKey(1) \in DOMAIN submission_queue[r]
       /\ submission_queue[r][SubmissionKey(1)].user = <<95, 120, 57, 95, 50, 101>>

\* the pending score subchange of submission s at ranking r after the step
ScoreEntry(r, s) ==
    subchange_queue'[r][encode_id(DecStr(Timestamp(s)) \o DecStr(s) \o <<115>>)]

\* C28: malformed ranking details are treated as absent. When the ranking
\* details of the result are blank (None or 0) or not valid JSON (1),
\* new_evaluation on the active dataset and dataset_updated raise no error
\* and set the subchange with the stored score and without the extra field.
C28_MalformedDetails ==
    [][/\ \A s \in DatasetSubs, d \in DatasetDatasets :
             (/\ RpcNewEvaluation(s, d)
              /\ <<s, d>> \in Pairs
              /\ res[<<s, d>>].status \in {"evaluated", "fail"}
              /\ ~Hidden(UserOf(s))
              /\ d = active[TaskOf(s)]
              /\ res'[<<s, d>>].details \in {None, 0, 1})
                => /\ raised' = "none"
                   /\ \A r \in Rankings :
                         /\ "score" \in ScoreEntry(r, s).keys
                         /\ ScoreEntry(r, s).score = res'[<<s, d>>].score
                         /\ ScoreEntry(r, s).score # None
                         /\ "extra" \notin ScoreEntry(r, s).keys
       /\ \A t \in Tasks :
             RpcDatasetUpdated(t) =>
                /\ raised' = "none"
                /\ \A s \in {x \in Submissions : TaskOf(x) = t} :
                      LET sr == res[<<s, active[t]>>]
                      IN (sr.status # "absent" /\ sr.details \in {None, 0, 1})
                            => \A r \in Rankings :
                                  /\ "extra" \notin ScoreEntry(r, s).keys
                                  /\ sr.score # None =>
                                        /\ "score" \in ScoreEntry(r, s).keys
                                        /\ ScoreEntry(r, s).score = sr.score]_vars

\* the result of submission 1 under the active dataset 2 has a score and
\* ranking details that are not JSON; its subchange is pending with the
\* score and without extra
C28_Witness ==
    /\ active["t1"] = 2
    /\ res[<<1, 2>>].details = 1
    /\ res[<<1, 2>>].score # None
    /\ raised = "none"
    /\ \A r \in Rankings :
          /\ r \in DOMAIN subchange_queue
          /\ encode_id(ScoreSubchangeId(1)) \in DOMAIN subchange_queue[r]
          /\ subchange_queue[r][encode_id(ScoreSubchangeId(1))].keys = {"score"}
          /\ subchange_queue[r][encode_id(ScoreSubchangeId(1))].score = res[<<1, 2>>].score

\* C29: interleaving with the drain does not strand work. Also when
\* invalidate_submission or search_jobs_not_done run while a drain step is
\* suspended in a handler, the drain does not return False, ending the last
\* scheduled drain, while a backlog is non-empty.
C29_AsStated ==
    [][(timeouts' = 0 /\ timeouts = 1)
          => submission_results_to_score' = {} /\ submissions_to_token' = {}]_vars

\* C30: a drain step never pops from an empty backlog, also when other
\* callbacks or another drain step run at the suspension points between the
\* size computation at the start of the step and the pops: no callback of
\* score_old_submissions is left by the KeyError of set.pop().
C30_AsStated ==
    \A i \in DOMAIN frames : frames[i].pc # "KeyError"


\* C31: no submissions batch and no subchanges batch is PUT to a ranking
\* before the three PUTs of initialize have all succeeded for that ranking at
\* least once since the service started. Every PUT of the current round is
\* in log, failed ones included, and initialized is never reset.
C31_NoDataBeforeInitialize ==
    \A i \in 1..Len(log) :
        log[i].kind \in {"submissions", "subchanges"}
            => log[i].ranking \in initialized

\* a round in which one ranking failed its initialize and received nothing,
\* while the other, initialized, received a batch
C31_Witness ==
    \E i, j \in 1..Len(log) :
        /\ log[i].kind \in {"submissions", "subchanges"}
        /\ log[i].ranking \in initialized
        /\ log[j].kind \in {"contest", "users", "tasks"}
        /\ ~log[j].ok
        /\ log[j].ranking \notin initialized
        /\ j < i

\* C32: a subchange that refers to submission s is PUT to a ranking only if
\* a submission entry for s was PUT successfully to that ranking before, in
\* the same round or in an earlier one. hist keeps every entry ever set in a
\* queue of a ranking, so an entry that is not in hist was never PUT: the
\* formula asks the least the claim requires, that the submission entry of
\* every subchange PUT to a ranking was at least set for that ranking.
C32_AsStated ==
    \A i \in 1..Len(log) :
        log[i].kind = "subchanges" =>
            \A k \in log[i].data :
                LET r == log[i].ranking
                    change == hist[<<r, "subchange", k>>].val
                IN <<r, "submission", change.submission>> \in DOMAIN hist

\* C33: the scan reaches a fixpoint. With the store unchanged, once a scan
\* and the drain it started have completed (results are marked scored, no
\* timeout of score_old_submissions is alive, both backlogs are empty and the
\* flag is off), the next search_jobs_not_done adds nothing to either backlog
\* and schedules no drain, submissions of hidden users included.
DrainCompleted ==
    /\ submission_results_scored # {}
    /\ timeouts = 0
    /\ ~scoring_old_submission
    /\ submission_results_to_score = {}
    /\ submissions_to_token = {}

C33_AsStated ==
    [][(DrainCompleted /\ search_jobs_not_done) => UNCHANGED drain_vars]_vars

====
